---------------------------- MODULE Spec2Model ----------------------------
(***************************************************************************)
(* Verification model of the vector-racer game server                      *)
(* (server/internal/game, server/internal/matchmaker, server/cmd) and of   *)
(* the client's integrator and decoder.                                    *)
(*                                                                         *)
(* The module holds several specifications over one set of variables:      *)
(*   SpecLife  one Room's Start/Stop calls and its gameLoop goroutines     *)
(*   SpecRoom  one Room: joins, leaves and the steps of updatePhysics      *)
(*   SpecInput one Room: joins, HandleInput and the steps of updatePhysics *)
(*   SpecPhys  one Room: joins, HandleInput and whole simulation steps     *)
(*   SpecIds   one Room, new or late in its life: joins and leaves         *)
(*   SpecMM    the Matchmaker: handleJoin, leaves and CleanupEmptyRooms    *)
(*   SpecLocks the locks taken by the scheduler and the calling threads    *)
(*   SpecSend  the connections of one Room: fan-outs, pumps and leaves     *)
(*   SpecCalls one Room: joins, leaves and HandleInput, scheduler at rest  *)
(*   SpecCalc  single calls: UpdatePlayer and the client's update,         *)
(*             CheckCollision, a state update encoded and decoded, a       *)
(*             displacement check with its verdict applied                 *)
(*   SpecLong  one Room with one participant over seconds of play          *)
(*   SpecConn  the connections: well-formed messages, both pumps, cleanup, *)
(*             Close and the scheduler's kicks                             *)
(*   SpecMsg   the read pumps fed arbitrary messages, and kicks            *)
(*   SpecOps   the lock, field and Send operations of each entry point    *)
(* Each specification moves its own group of variables and leaves the      *)
(* other groups at their initial values.                                   *)
(***************************************************************************)
EXTENDS Integers, Sequences, FiniteSets, Bags, TLC

(***************************************************************************)
(* Bounds of the model                                                     *)
(***************************************************************************)
\* threads that call Room.Start / Room.Stop
NumCallers == 2
\* Start/Stop calls each caller thread makes
MaxCalls == 2
\* simulation steps counted by tickCount in SpecLife
MaxLifeTicks == 2
\* config.MaxPlayersPerRoom (100 in the program), scaled down
MaxPlayersPerRoom == 2
\* AddPlayer calls made on the Room
MaxAddCalls == 3
\* RemovePlayer calls made by threads other than the scheduler
MaxRemoveCalls == 1
\* HandleInput calls made on the Room
MaxInputCalls == 4
\* threads calling HandleInput (the program has one read pump per connection)
NumInputThreads == 1
\* threads, other than the scheduler, calling RemovePlayer
NumRemovers == 1
\* simulation steps the scheduler runs in SpecRoom
MaxRoomTicks == 7
\* simulation steps the scheduler runs in SpecInput
MaxInputTicks == 2
\* the step length of an undelayed 60 Hz step, in milliseconds
ShortDt == 17
\* simulation steps and HandleInput calls in SpecPhys
MaxPhysTicks == 8
MaxPhysInputs == 2
\* simulation steps of SpecPhys that run with ShortDt, the others with RoomDt
MaxShortSteps == 1
\* the respawn delay, in milliseconds: RESPAWN_DELAY_MS of the client, which
\* config.RespawnDelay of the server has to match
RespawnDelay == 2500
\* simulation steps in SpecLong
MaxLongTicks == 45
\* config.MaxRoomsPerServer (50 in the program), scaled down
MaxRoomsPerServer == 2
\* threads inside handleJoin
NumJoiners == 2
\* handleJoin calls, leaves and CleanupEmptyRooms calls in SpecMM
MaxJoins == 5
MaxLeaves == 1
MaxCleanups == 2
\* threads, besides the Room's scheduler, that take locks, and the operations
\* each thread runs
NumLockCallers == 2
MaxLockCalls == 1
\* connections in SpecSend, the capacity of a connection's sendChan (256 in
\* the program) and the Room.broadcast calls made
NumConns == 3
SendBufferSize == 2
MaxCasts == 4
\* connections in SpecConn and SpecMsg, and the messages read over all of them
NumClients == 2
MaxMessages == 3
\* step length of the scheduler's simulation steps in SpecRoom and SpecInput,
\* in milliseconds (the cap of gameLoop)
RoomDt == 100
\* SpecRoom's stand-ins for a collision push: a sideways displacement, in
\* 1/100 unit, within and beyond what ValidatePlayerMovement accepts for a
\* step of RoomDt
PushNear == 15000
PushFar == 20000

(***************************************************************************)
(* Fixed-point arithmetic.  The program computes in float64; the model     *)
(* computes in integers: lengths in 1/100 of a world unit, speeds in 1/100 *)
(* unit per second, the step length dt in milliseconds, angles in 1/100    *)
(* degree, steering and throttle in 1/127 (the wire's int8 over 127).      *)
(* Every product is divided back at once so that no intermediate value     *)
(* leaves the 32-bit range.                                                *)
(***************************************************************************)
Abs(a) == IF a < 0 THEN -a ELSE a

Sign(a) == IF a < 0 THEN -1 ELSE IF a > 0 THEN 1 ELSE 0

Min2(a, b) == IF a < b THEN a ELSE b

Max2(a, b) == IF a > b THEN a ELSE b

\* a / b rounded toward zero (b > 0), as Go's int64(float) conversion truncates
Quot(a, b) == IF a >= 0 THEN a \div b ELSE -((-a) \div b)

\* math.Sqrt, rounded down, of a non-negative integer below MaxRoot^2
MaxRoot == 4000

ISqrt(n) == CHOOSE r \in 0..MaxRoot : r * r <= n /\ n < (r + 1) * (r + 1)

\* whether sqrt(dx*dx + dy*dy) > r, for r <= 32767, without overflow
DistGreater(dx, dy, r) ==
    \/ Abs(dx) > r
    \/ Abs(dy) > r
    \/ dx * dx + dy * dy > r * r

\* 10000*sin(t) for t in 1/10000 radian, |t| <= pi/2: the series to t^9
SinSeries(t) ==
    LET t2 == (t * t) \div 10000
        t3 == Quot(t * t2, 60000)
        t5 == Quot(t3 * t2, 200000)
        t7 == Quot(t5 * t2, 420000)
        t9 == Quot(t7 * t2, 720000)
    IN  t - t3 + t5 - t7 + t9

\* pi and 2*pi in 1/10000 radian
PiE4 == 31416

TwoPiE4 == 62832

\* math.Sin: 10000*sin(t), t in 1/10000 radian, reduced to [-pi/2, pi/2]
Sin(t) ==
    LET r == ((t + PiE4) % TwoPiE4) - PiE4
    IN  IF r > PiE4 \div 2 THEN SinSeries(PiE4 - r)
        ELSE IF r < -(PiE4 \div 2) THEN SinSeries(-PiE4 - r)
        ELSE SinSeries(r)

(***************************************************************************)
(* config: the game constants and the road curve                           *)
(***************************************************************************)
CarWidth == 2000
RoadWidth == 40000
MaxSpeed == 140000
Acceleration == 90000
Braking == 200000
FrictionRoad == 25000
FrictionOffroad == 500000
\* InertiaDampening 0.3 and MinTurnAuthority 0.5, in 1/1000
InertiaDampening == 300
MinTurnAuthority == 500
\* ExplosionTolerance 0.35, in 1/100
ExplosionTolerance == 35
TurnSpeed == 55000
\* PushForce 2.0; SpeedDiffMultiplier 3.5, in 1/10
PushForce == 2
SpeedDiffMultiplier == 35
SpeedDiffThreshold == 20000
\* CollisionRadius = CarWidth * 1.4
CollisionRadius == (CarWidth * 14) \div 10
\* RoadScale 0.001 per unit is 1/10 of a 1/10000 radian per 1/100 unit
RoadAmplitude == 60000
MaxViolations == 5
\* SpeedTolerance 1.1, in 1/10
SpeedTolerance == 11
MaxInputsPerTick == 3

\* GetRoadCurve: sin(y*RoadScale)*RoadAmplitude
\*             + sin(y*RoadScale*1.5)^3 * RoadAmplitude*0.5
GetRoadCurve(worldY) ==
    LET s1 == Sin(Quot(worldY, 10))
        s2 == Sin(Quot(worldY * 3, 20))
        cube == Quot(Quot(s2 * s2, 10000) * s2, 10000)
    IN  Quot(s1 * (RoadAmplitude \div 100), 100)
        + Quot(cube * (RoadAmplitude \div 200), 100)

(***************************************************************************)
(* Room lifecycle: Start, Stop, gameLoop  (room.go 65-87, 202-238)         *)
(***************************************************************************)
VARIABLES
    running,      \* Room.running (atomic.Bool)
    stopChan,     \* Room.stopChan: "open" or "closed"
    panicked,     \* a close of the closed stopChan panicked: the process is gone
    loops,        \* the gameLoop goroutines launched so far, each at a position
    tickCount,    \* Room.tickCount
    stopSignals,  \* number of close(r.stopChan) executed
    callers       \* the threads calling Start/Stop: position and last outcome

lifeVars == <<running, stopChan, panicked, loops, tickCount, stopSignals, callers>>

VARIABLES
    players,       \* Room.players: participant id -> *Player (an index of heap)
    nextPlayerID,  \* Room.nextPlayerID (uint16)
    heap,          \* the Player objects allocated so far, by creation order
    connLog,       \* per Player: what its PlayerConnection was handed, in order
                   \* (the frames passed to Send, Close calls) and the moment
                   \* the Player was deleted from the map
    ghost,         \* per Player: bookkeeping for the claims, read by no action
    assignedIds,   \* the ids AddPlayer assigned, in order
    addCalls,      \* AddPlayer calls made
    lastAdd,       \* what the last AddPlayer call returned
    sched,         \* the scheduler thread inside updatePhysics
    inputs,        \* the threads inside HandleInput
    inputCalls,    \* HandleInput calls made
    removers,      \* the threads inside RemovePlayer
    removeCalls    \* RemovePlayer calls made by those threads

roomVars == <<players, nextPlayerID, heap, connLog, ghost, assignedIds, addCalls,
              lastAdd, sched, inputs, inputCalls, removers, removeCalls>>

VARIABLES
    shortSteps     \* simulation steps run with the step length ShortDt

physVars == <<shortSteps>>

VARIABLES
    mm,            \* the Matchmaker: rooms (the map, as the set of its Rooms),
                   \* objs (the Rooms created so far: participant count and
                   \* running flag), mu (who holds Matchmaker.mu)
    cleaner,       \* the thread inside CleanupEmptyRooms
    joiners,       \* the threads inside handleJoin
    mmCalls        \* handleJoin calls, leaves and CleanupEmptyRooms calls made

mmVars == <<mm, cleaner, joiners, mmCalls>>

VARIABLES
    lk,            \* the mutexes (Matchmaker.mu, Room.mu, SpatialGrid.mu, each
                   \* Player.mu): the writer, the readers, the blocked writers
    thr            \* per thread: the lock operations left in its current call
                   \* and the calls it has made

lockVars == <<lk, thr>>

VARIABLES
    conns,         \* per ClientConnection: sendChan (the frames queued), done
                   \* (the done channel is closed), pump (writePump's state),
                   \* wire (the frames writePump wrote to the socket)
    inRoom,        \* the connections whose Player is in the Room's map
    caster         \* the thread inside Room.broadcast, and what its fan-outs did

sendVars == <<conns, inRoom, caster>>

VARIABLES
    calc           \* one call of a function under check: arguments and results

calcVars == <<calc>>

VARIABLES
    client,        \* per ClientConnection: c.player and c.room (0 for nil), the
                   \* done channel, the frames handed to Send, messages read
    part,          \* the Players created: owning connection, Room, inputs handled
    roster,        \* per Room: the Players in its map
    pumps,         \* the goroutines that call Close: each connection's
                   \* readPump and writePump, and the scheduler in kickPlayer
    connPanic      \* a close of a closed channel has happened

connVars == <<client, part, roster, pumps, connPanic>>

vars == <<lifeVars, roomVars, physVars, mmVars, lockVars, sendVars, calcVars, connVars>>

\* the life variables other than tickCount, which the scheduler also writes
lifeButTick == <<running, stopChan, panicked, loops, stopSignals, callers>>

\* what the lifecycle actions leave alone, and what the Room's actions do
notLife == <<roomVars, physVars, mmVars, lockVars, sendVars, calcVars, connVars>>

notRoom == <<lifeButTick, physVars, mmVars, lockVars, sendVars, calcVars, connVars>>

notMM == <<lifeVars, roomVars, physVars, lockVars, sendVars, calcVars, connVars>>

notLock == <<lifeVars, roomVars, physVars, mmVars, sendVars, calcVars, connVars>>

notSend == <<lifeVars, roomVars, physVars, mmVars, lockVars, calcVars, connVars>>

notCalc == <<lifeVars, roomVars, physVars, mmVars, lockVars, sendVars, connVars>>

notConn == <<lifeVars, roomVars, physVars, mmVars, lockVars, sendVars, calcVars>>

Callers == 1..NumCallers

\* NewRoom: the running flag is false, the stop channel is open, no loop runs
LifeInit ==
    /\ running = FALSE
    /\ stopChan = "open"
    /\ panicked = FALSE
    /\ loops = <<>>
    /\ tickCount = 0
    /\ stopSignals = 0
    /\ callers = [t \in Callers |-> [pc |-> "idle", calls |-> 0, last |-> "none"]]

\* Start, first half: `if r.running.Swap(true) { return }`, with the flag
\* only read instead of swapped (a Load where the Swap belongs)
StartSwapLoadOnly(t) ==
    /\ ~panicked
    /\ callers[t].pc = "idle"
    /\ callers[t].calls < MaxCalls
    /\ callers' = [callers EXCEPT ![t] =
          [pc |-> IF running THEN "idle" ELSE "startGo",
           calls |-> @.calls + 1,
           last |-> IF running THEN "startNoop" ELSE @.last]]
    /\ UNCHANGED <<running, stopChan, panicked, loops, tickCount, stopSignals, notLife>>

\* Start, first half: `if r.running.Swap(true) { return }`
StartSwap(t) ==
    /\ ~panicked
    /\ callers[t].pc = "idle"
    /\ callers[t].calls < MaxCalls
    /\ running' = TRUE
    /\ callers' = [callers EXCEPT ![t] =
          [pc |-> IF running THEN "idle" ELSE "startGo",
           calls |-> @.calls + 1,
           last |-> IF running THEN "startNoop" ELSE @.last]]
    /\ UNCHANGED <<stopChan, panicked, loops, tickCount, stopSignals, notLife>>

\* Start, second half: `go r.gameLoop()`
StartGo(t) ==
    /\ ~panicked
    /\ callers[t].pc = "startGo"
    /\ loops' = Append(loops, "select")
    /\ callers' = [callers EXCEPT ![t].pc = "idle", ![t].last = "started"]
    /\ UNCHANGED <<running, stopChan, panicked, tickCount, stopSignals, notLife>>

\* Stop, first half: `if !r.running.Swap(false) { return }`
StopSwap(t) ==
    /\ ~panicked
    /\ callers[t].pc = "idle"
    /\ callers[t].calls < MaxCalls
    /\ running' = FALSE
    /\ callers' = [callers EXCEPT ![t] =
          [pc |-> IF running THEN "stopClose" ELSE "idle",
           calls |-> @.calls + 1,
           last |-> IF running THEN @.last ELSE "stopNoop"]]
    /\ UNCHANGED <<stopChan, panicked, loops, tickCount, stopSignals, notLife>>

\* Stop, second half: `close(r.stopChan)`; closing a closed channel panics
StopClose(t) ==
    /\ ~panicked
    /\ callers[t].pc = "stopClose"
    /\ stopSignals' = stopSignals + 1
    /\ IF stopChan = "closed"
          THEN panicked' = TRUE /\ UNCHANGED stopChan
          ELSE stopChan' = "closed" /\ UNCHANGED panicked
    /\ callers' = [callers EXCEPT ![t].pc = "idle", ![t].last = "stopped"]
    /\ UNCHANGED <<running, loops, tickCount, notLife>>

\* gameLoop's select, `case <-r.stopChan: return`
LoopSelectStop(l) ==
    /\ ~panicked
    /\ loops[l] = "select"
    /\ stopChan = "closed"
    /\ loops' = [loops EXCEPT ![l] = "exited"]
    /\ UNCHANGED <<running, stopChan, panicked, tickCount, stopSignals, callers, notLife>>

\* gameLoop's select, `case now := <-physicsTicker.C`: updatePhysics begins.
\* Go's select picks among the ready cases at random, so a fired ticker is
\* eligible whether or not stopChan is closed.
LoopSelectPhysics(l) ==
    /\ ~panicked
    /\ loops[l] = "select"
    /\ tickCount < MaxLifeTicks
    /\ loops' = [loops EXCEPT ![l] = "physics"]
    /\ UNCHANGED <<running, stopChan, panicked, tickCount, stopSignals, callers, notLife>>

\* updatePhysics returns; `atomic.AddUint64(&r.tickCount, 1)`
LoopPhysicsDone(l) ==
    /\ ~panicked
    /\ loops[l] = "physics"
    /\ tickCount' = tickCount + 1
    /\ loops' = [loops EXCEPT ![l] = "select"]
    /\ UNCHANGED <<running, stopChan, panicked, stopSignals, callers, notLife>>

\* gameLoop's select, `case <-broadcastTicker.C`: broadcastState begins
LoopSelectBroadcast(l) ==
    /\ ~panicked
    /\ loops[l] = "select"
    /\ loops' = [loops EXCEPT ![l] = "broadcast"]
    /\ UNCHANGED <<running, stopChan, panicked, tickCount, stopSignals, callers, notLife>>

\* broadcastState returns
LoopBroadcastDone(l) ==
    /\ ~panicked
    /\ loops[l] = "broadcast"
    /\ loops' = [loops EXCEPT ![l] = "select"]
    /\ UNCHANGED <<running, stopChan, panicked, tickCount, stopSignals, callers, notLife>>

LifeNext ==
    \/ \E t \in Callers : StartSwap(t)
    \/ \E t \in Callers : StartGo(t)
    \/ \E t \in Callers : StopSwap(t)
    \/ \E t \in Callers : StopClose(t)
    \/ \E l \in DOMAIN loops : LoopSelectStop(l)
    \/ \E l \in DOMAIN loops : LoopSelectPhysics(l)
    \/ \E l \in DOMAIN loops : LoopPhysicsDone(l)
    \/ \E l \in DOMAIN loops : LoopSelectBroadcast(l)
    \/ \E l \in DOMAIN loops : LoopBroadcastDone(l)


(***************************************************************************)
(* Participants  (room.go 400-641: player.go)                              *)
(***************************************************************************)
\* the zero PlayerInput of a new Player
NoInput == [Sequence |-> 0, Keys |-> 0, Steering |-> 0, Throttle |-> 0, Flags |-> 0]

\* NewPlayer, then AddPlayer's placement at the road centre and
\* SaveValidPosition (room.go 111-116)
NewPlayer(id) ==
    [ID |-> id,
     X |-> GetRoadCurve(0), Y |-> 0, Speed |-> 0, Angle |-> 0, Rating |-> 0,
     Exploded |-> FALSE,
     LastValidX |-> GetRoadCurve(0), LastValidY |-> 0,
     Violations |-> 0, InputsThisTick |-> 0,
     CurrentInput |-> NoInput, LastInputTime |-> 0]

\* Player.SaveValidPosition
SaveValidPosition(p) ==
    [p EXCEPT !.LastValidX = p.X, !.LastValidY = p.Y, !.Violations = 0]

\* RubberbandToValid without its count of the violation
RubberbandKeepCount(p) ==
    [p EXCEPT !.X = p.LastValidX, !.Y = p.LastValidY]

\* Player.RubberbandToValid
RubberbandToValid(p) ==
    [p EXCEPT !.X = p.LastValidX, !.Y = p.LastValidY, !.Violations = @ + 1]

\* Player.Explode (the explosion time is not modelled)
Explode(p) ==
    IF p.Exploded THEN p ELSE [p EXCEPT !.Exploded = TRUE, !.Rating = 0]

\* Player.ResetInputCount
ResetInputCount(p) == [p EXCEPT !.InputsThisTick = 0]

\* network.DecodeSteeringThrottle: the signed byte over 127; the model keeps
\* the value in 1/127, so the byte is its numerator
DecodeSteeringThrottle(b) == b

\* Player.ApplyInput, with HandleInput's conversion of the wire message
ApplyInput(p, msg, time) ==
    [p EXCEPT !.CurrentInput =
                  [Sequence |-> msg.Sequence, Keys |-> msg.Keys,
                   Steering |-> DecodeSteeringThrottle(msg.Steering),
                   Throttle |-> DecodeSteeringThrottle(msg.Throttle),
                   Flags |-> msg.Flags],
              !.LastInputTime = time]

(***************************************************************************)
(* Physics  (physics.go) and the spatial grid  (collision.go)              *)
(***************************************************************************)
\* UpdatePlayer's decoding of the input: the force, in 1/100 unit/s^2, and
\* the turn direction, in 1/127
AccForce(input) ==
    LET keyed == IF (input.Keys \div 2) % 2 = 1 THEN -Braking
                 ELSE IF input.Keys % 2 = 1 THEN Acceleration
                 ELSE 0
    IN  IF Abs(input.Throttle) * 10 > 127
        THEN IF input.Throttle > 0
             THEN Quot(Acceleration * input.Throttle, 127)
             ELSE Quot(Braking * input.Throttle, 127)
        ELSE keyed

TurnDir(input) ==
    LET keyed == IF (input.Keys \div 8) % 2 = 1 THEN 127
                 ELSE IF (input.Keys \div 4) % 2 = 1 THEN -127
                 ELSE 0
    IN  IF Abs(input.Steering) * 10 > 127 THEN input.Steering ELSE keyed

\* `math.Max(-config.MaxSpeed*0.2, math.Min(p.Speed, config.MaxSpeed))`
ClampSpeed(speed) == Max2(-((MaxSpeed * 2) \div 10), Min2(speed, MaxSpeed))

\* UpdatePlayer, `edgeDist := distFromCenter - roadHalfWidth`
EdgeDist(p) == Abs(p.X - GetRoadCurve(p.Y)) - RoadWidth \div 2

\* UpdatePlayer, `isOffRoad := edgeDist > -carHalfWidth`
IsOffRoad(p) == EdgeDist(p) > -(CarWidth \div 2)

\* UpdatePlayer, friction toward zero when no force is applied
ApplyFriction(speed, accForce, isOffRoad, dt) ==
    LET drop == Quot((IF isOffRoad THEN FrictionOffroad ELSE FrictionRoad) * dt, 1000)
    IN  IF accForce # 0 THEN speed
        ELSE IF speed > 0 THEN Max2(0, speed - drop)
        ELSE IF speed < 0 THEN Min2(0, speed + drop)
        ELSE speed

\* UpdatePlayer, `p.Speed -= p.Speed * 2.0 * dt` off the road under force
OffroadDecay(speed, accForce, isOffRoad, dt) ==
    IF isOffRoad /\ accForce # 0 THEN speed - Quot(speed * 2 * dt, 1000) ELSE speed

\* UpdatePlayer, `p.Speed += accForce * dt` and the clamp
Accelerate(speed, accForce, dt) == ClampSpeed(speed + Quot(accForce * dt, 1000))

\* UpdatePlayer, understeerFactor, in 1/1000
UndersteerFactor(speed) ==
    Max2(MinTurnAuthority,
         1000 - Quot(Quot(Abs(speed) * 1000, MaxSpeed) * InertiaDampening, 1000))

\* UpdatePlayer, steering: p with the clamped speed, turned or straightening
Steer(p, speed, turnDir, dt) ==
    LET u == UndersteerFactor(speed)
    IN  IF Abs(turnDir) * 100 > 127 /\ Abs(speed) > 2000
        THEN [p EXCEPT
                 !.X = @ + Quot(Quot(Quot(TurnSpeed * dt, 1000) * u, 1000) * turnDir, 127),
                 !.Angle = Quot(turnDir * 25 * u, 1270),
                 !.Speed = speed - Quot(Quot(speed * 3 * dt, 10000) * Abs(turnDir), 127)]
        ELSE [p EXCEPT !.Angle = Quot(@ * 9, 10), !.Speed = speed]

\* UpdatePlayer, `p.Y += p.Speed * dt` and the rating, in 1/100
Advance(p, dt) ==
    [p EXCEPT !.Y = @ + Quot(p.Speed * dt, 1000),
              !.Rating = IF p.Speed > 0
                         THEN @ + Quot(Quot(p.Speed, 100) * Quot(p.Speed, 100) * dt, 200000)
                         ELSE @]

\* the explosion check with >= for >
ShouldExplodeAtLimit(edgeDist) == edgeDist >= Quot(RoadWidth * ExplosionTolerance, 100)

\* UpdatePlayer, `edgeDist > config.RoadWidth*config.ExplosionTolerance`
ShouldExplode(edgeDist) == edgeDist > Quot(RoadWidth * ExplosionTolerance, 100)

\* UpdatePlayer with an explosion that leaves the rating
UpdatePlayerKeepRating(p, dt) ==
    IF p.Exploded THEN p
    ELSE IF ShouldExplode(EdgeDist(p))
    THEN [p EXCEPT !.Exploded = TRUE]
    ELSE Advance(
           Steer(p,
                 Accelerate(
                   OffroadDecay(
                     ApplyFriction(p.Speed, AccForce(p.CurrentInput), IsOffRoad(p), dt),
                     AccForce(p.CurrentInput), IsOffRoad(p), dt),
                   AccForce(p.CurrentInput), dt),
                 TurnDir(p.CurrentInput), dt),
           dt)

\* Physics.UpdatePlayer, dt in milliseconds
UpdatePlayer(p, dt) ==
    IF p.Exploded THEN p
    ELSE IF ShouldExplode(EdgeDist(p))
    THEN [p EXCEPT !.Exploded = TRUE, !.Rating = 0]
    ELSE Advance(
           Steer(p,
                 Accelerate(
                   OffroadDecay(
                     ApplyFriction(p.Speed, AccForce(p.CurrentInput), IsOffRoad(p), dt),
                     AccForce(p.CurrentInput), IsOffRoad(p), dt),
                   AccForce(p.CurrentInput), dt),
                 TurnDir(p.CurrentInput), dt),
           dt)

\* CheckCollision's speed factor with 9 for 0.9
CollisionSpeedGain(speed) == speed * 9

\* CheckCollision, `p1.Speed *= 0.9`
CollisionSpeed(speed) == Quot(speed * 9, 10)

\* Physics.CheckCollision(p1, p2, dt): p1 as the call leaves it (p2 is only read)
CheckCollision(p1, p2, dt) ==
    LET dx == p1.X - p2.X
        dy == p1.Y - p2.Y
        minDist == CollisionRadius
    IN  IF \/ Abs(dx) >= minDist
           \/ Abs(dy) >= minDist
           \/ dx * dx + dy * dy >= minDist * minDist
           \/ (dx = 0 /\ dy = 0)
        THEN p1
        ELSE
        LET dist == Max2(1, ISqrt(dx * dx + dy * dy))
            speedDiff == p1.Speed - p2.Speed
            base == Quot(PushForce * (Abs(p1.Speed) + 10000) * dt, 1000)
            pushPower == IF speedDiff > SpeedDiffThreshold
                         THEN Quot(base * SpeedDiffMultiplier, 10) ELSE base
        IN  [p1 EXCEPT !.X = @ + Quot(dx * pushPower, dist),
                       !.Y = @ + Quot(dy * pushPower, dist),
                       !.Speed = CollisionSpeed(@)]

\* CheckCollision pushing both Players
CheckCollisionBoth(p1, p2, dt) == <<CheckCollision(p1, p2, dt), CheckCollision(p2, p1, dt)>>

\* Physics.CheckCollision(p1, p2, dt) as a call on two Players: p1 is locked and
\* written, p2 is read-locked and left as it is
CheckCollisionPair(p1, p2, dt) == <<CheckCollision(p1, p2, dt), p2>>

(***************************************************************************)
(* The client's integrator  (client Physics.update, keyboard mode, with    *)
(* no remote players).  The local player is a record x, y, speed, angle,   *)
(* rating, exploded in the units of the server's Player; keys is the       *)
(* record of the four arrow keys.                                          *)
(***************************************************************************)
\* `if (keys.ArrowUp) accForce = ...; if (keys.ArrowDown) accForce = ...`
ClientAccForce(keys) ==
    IF keys.ArrowDown THEN -Braking ELSE IF keys.ArrowUp THEN Acceleration ELSE 0

\* `if (keys.ArrowLeft) turnDir = -1; if (keys.ArrowRight) turnDir = 1`, in 1/127
ClientTurnDir(keys) ==
    IF keys.ArrowRight THEN 127 ELSE IF keys.ArrowLeft THEN -127 ELSE 0

\* update, "Update rating based on speed": the first statement after the
\* exploded check, from the speed the step starts with
ClientRate(p, dt) ==
    IF p.speed > 0
    THEN [p EXCEPT !.rating = @ + Quot(Quot(p.speed, 100) * Quot(p.speed, 100) * dt, 200000)]
    ELSE p

\* update, `edgeDist = distFromCenter - roadHalfWidth`
ClientEdgeDist(p) == Abs(p.x - GetRoadCurve(p.y)) - RoadWidth \div 2

\* update, `isOffRoad = edgeDist > -carHalfWidth`
ClientIsOffRoad(p) == ClientEdgeDist(p) > -(CarWidth \div 2)

\* triggerExplosion, GameStateManager.explodePlayer
explodePlayer(p) == [p EXCEPT !.exploded = TRUE, !.rating = 0]

\* update, "Natural friction decay"
ClientFriction(speed, accForce, isOffRoad, dt) ==
    LET drop == Quot((IF isOffRoad THEN FrictionOffroad ELSE FrictionRoad) * dt, 1000)
    IN  IF accForce = 0 /\ speed > 0 THEN Max2(0, speed - drop)
        ELSE IF accForce = 0 /\ speed < 0 THEN Min2(0, speed + drop)
        ELSE speed

\* update, "Off-road speed reduction"
ClientOffroadDecay(speed, accForce, isOffRoad, dt) ==
    IF isOffRoad /\ accForce # 0 THEN speed - Quot(speed * 2 * dt, 1000) ELSE speed

\* update, "Apply acceleration" and the clamp
ClientAccelerate(speed, accForce, dt) ==
    Max2(-((MaxSpeed * 2) \div 10), Min2(speed + Quot(accForce * dt, 1000), MaxSpeed))

\* update, understeerFactor, in 1/1000
ClientUndersteerFactor(speed) ==
    Max2(MinTurnAuthority,
         1000 - Quot(Quot(Abs(speed) * 1000, MaxSpeed) * InertiaDampening, 1000))

\* update, "Steering with understeer"
ClientSteer(p, speed, turnDir, dt) ==
    LET u == ClientUndersteerFactor(speed)
    IN  IF Abs(turnDir) * 100 > 127 /\ Abs(speed) > 2000
        THEN [p EXCEPT
                 !.x = @ + Quot(Quot(Quot(TurnSpeed * dt, 1000) * u, 1000) * turnDir, 127),
                 !.angle = Quot(turnDir * 25 * u, 1270),
                 !.speed = speed - Quot(Quot(speed * 3 * dt, 10000) * Abs(turnDir), 127)]
        ELSE [p EXCEPT !.angle = Quot(@ * 9, 10), !.speed = speed]

\* update, "Update position"
ClientAdvance(p, dt) == [p EXCEPT !.y = @ + Quot(p.speed * dt, 1000)]

\* update from the explosion check on: q is the player after ClientRate
ClientIntegrate(q, keys, dt) ==
    IF ClientEdgeDist(q) > Quot(RoadWidth * ExplosionTolerance, 100)
    THEN explodePlayer(q)
    ELSE ClientAdvance(
           ClientSteer(q,
                       ClientAccelerate(
                         ClientOffroadDecay(
                           ClientFriction(q.speed, ClientAccForce(keys), ClientIsOffRoad(q), dt),
                           ClientAccForce(keys), ClientIsOffRoad(q), dt),
                         ClientAccForce(keys), dt),
                       ClientTurnDir(keys), dt),
           dt)

\* Physics.update(dt, canvas) of the client, dt in milliseconds
ClientUpdate(p, keys, dt) ==
    IF p.exploded THEN p ELSE ClientIntegrate(ClientRate(p, dt), keys, dt)

\* NewSpatialGrid(100): the cell size, in 1/100 unit
CellSize == 10000

\* getCellKey on a grid of cells a tenth as wide
getCellKeyFine(x, y) == <<Quot(x, CellSize \div 10), Quot(y, CellSize \div 10)>>

\* SpatialGrid.getCellKey: `int64(x / g.cellSize)` truncates toward zero
getCellKey(x, y) == <<Quot(x, CellSize), Quot(y, CellSize)>>

\* GetPotentialCollisions without its scan of the adjacent cells
PotentialCollisionsSameCell(h, snap) ==
    LET key(i) == getCellKey(h[snap[i]].X, h[snap[i]].Y)
    IN  {<<snap[i], snap[j]>> : <<i, j>> \in
            {ij \in (DOMAIN snap) \X (DOMAIN snap) :
                ij[1] < ij[2] /\ key(ij[1]) = key(ij[2])}}

\* SpatialGrid.GetPotentialCollisions on the grid built from snap: the pairs
\* of one cell in insertion order, then the pairs across two adjacent cells,
\* first the Player of the cell the scan starts from
PotentialCollisions(h, snap) ==
    LET key(i) == getCellKey(h[snap[i]].X, h[snap[i]].Y)
        ahead(k1, k2) ==
            \/ k2[1] = k1[1] + 1 /\ Abs(k2[2] - k1[2]) <= 1
            \/ k2[1] = k1[1] /\ k2[2] = k1[2] + 1
    IN  {<<snap[i], snap[j]>> : <<i, j>> \in
            {ij \in (DOMAIN snap) \X (DOMAIN snap) :
                \/ ij[1] < ij[2] /\ key(ij[1]) = key(ij[2])
                \/ ij[1] # ij[2] /\ ahead(key(ij[1]), key(ij[2]))}}

\* the pairs resolved one after the other, in the order `pairs` lists them
RECURSIVE ResolveCollisions(_, _, _)
ResolveCollisions(h, pairs, dt) ==
    IF pairs = <<>> THEN h
    ELSE LET a == Head(pairs)[1]
             b == Head(pairs)[2]
         IN  ResolveCollisions([h EXCEPT ![a] = CheckCollision(h[a], h[b], dt)],
                               Tail(pairs), dt)

\* updatePhysics' integration loop over the snapshot
RECURSIVE IntegrateAll(_, _, _)
IntegrateAll(h, snap, dt) ==
    IF snap = <<>> THEN h
    ELSE IntegrateAll([h EXCEPT ![Head(snap)] = UpdatePlayer(@, dt)], Tail(snap), dt)

(***************************************************************************)
(* Anti-cheat  (anticheat.go)                                              *)
(***************************************************************************)
\* maxPossibleDistance = MaxSpeed * dt * SpeedTolerance, dt in milliseconds
MaxPossibleDistance(dt) == Quot(Quot(MaxSpeed * SpeedTolerance, 10) * dt, 1000)

\* `actualDistance > maxPossibleDistance`
Offending(p, dt) ==
    DistGreater(p.X - p.LastValidX, p.Y - p.LastValidY, MaxPossibleDistance(dt))

\* ValidatePlayerMovement: the verdict and the Player as the check leaves it
ValidatePlayerMovement(p, dt) ==
    LET offending == Offending(p, dt)
        speedOver == Abs(p.Speed) > Quot(MaxSpeed * SpeedTolerance, 10)
    IN  IF offending
        THEN [result |-> IF p.Violations + 1 > MaxViolations
                            THEN "Kick" ELSE "Rubberband",
              player |-> [p EXCEPT !.Violations = @ + 1]]
        ELSE LET q == IF speedOver
                         THEN [p EXCEPT !.Violations = @ + 1,
                                        !.Speed = Sign(p.Speed) * MaxSpeed]
                         ELSE p
             IN  [result |-> "Valid",
                  player |-> IF p.Violations > 0
                                THEN [q EXCEPT !.Violations = 0] ELSE q]

\* ValidatePosition
ValidatePosition(p) ==
    LET distFromRoad == Abs(p.X - GetRoadCurve(p.Y))
        maxAllowedDist == RoadWidth \div 2
                          + Quot(RoadWidth * ExplosionTolerance * 15, 1000)
    IN  IF distFromRoad > maxAllowedDist THEN "Explode" ELSE "Valid"

\* ApplyValidationResult with a rubberband that only counts the violation
ApplyWithoutRestore(p, result) ==
    CASE result = "Rubberband" -> [p EXCEPT !.Violations = @ + 1]
      [] result = "Explode" -> Explode(p)
      [] result = "Valid" -> SaveValidPosition(p)
      [] OTHER -> p

\* ApplyValidationResult
ApplyValidationResult(p, result) ==
    CASE result = "Rubberband" -> RubberbandToValid(p)
      [] result = "Explode" -> Explode(p)
      [] result = "Valid" -> SaveValidPosition(p)
      [] OTHER -> p

\* updatePhysics' validation of one participant that is not kicked
\* (room.go 278-282)
ValidateAndApply(p, dt) ==
    LET v == ValidatePlayerMovement(p, dt)
        a == ApplyValidationResult(v.player, v.result)
    IN  ApplyValidationResult(a, ValidatePosition(a))

(***************************************************************************)
(* Room: membership, input, the scheduler's step  (room.go 89-188, 240-379) *)
(***************************************************************************)
\* the frames, as (type, payload...) tuples
ErrorCodeRoomFull == 2
ErrorCodeKicked == 3
ErrorFrame(code) == <<"Error", code>>
PlayerJoinFrame(id) == <<"PlayerJoin", id>>
PlayerLeaveFrame(id) == <<"PlayerLeave", id>>
RoomInfoFrame(count, id) == <<"RoomInfo", count, id>>

\* the Player objects the map holds
Members == {players[i] : i \in DOMAIN players}

\* Connection.Send(frame) on each Player of ptrs
SendToAll(log, ptrs, frame) ==
    [q \in DOMAIN log |-> IF q \in ptrs THEN Append(log[q], frame) ELSE log[q]]

\* one more event in one Player's log
LogEvent(log, ptr, ev) == [log EXCEPT ![ptr] = Append(@, ev)]

\* `delete(r.players, playerID)`
MapDelete(id) == [i \in DOMAIN players \ {id} |-> players[i]]

\* `r.players[id] = player`
MapPut(id, ptr) ==
    [i \in DOMAIN players \cup {id} |-> IF i = id THEN ptr ELSE players[i]]

\* the orders a map iteration can yield the members in
Orderings(S) ==
    {f \in [1..Cardinality(S) -> S] : \A i, j \in 1..Cardinality(S) : i # j => f[i] # f[j]}

NewGhost ==
    [admitted |-> 0, applied |-> 0, rejected |-> 0, streak |-> 0, kicks |-> 0,
     deletedBy |-> "none", remaining |-> {}, explodedAt |-> 0, overstep |-> FALSE]

\* NewRoom, with the scheduler between two steps
RoomInit ==
    /\ players = <<>>
    /\ nextPlayerID = 1
    /\ heap = <<>>
    /\ connLog = <<>>
    /\ ghost = <<>>
    /\ assignedIds = <<>>
    /\ addCalls = 0
    /\ lastAdd = "none"
    /\ sched = [pc |-> "idle", snap |-> <<>>, idx |-> 0]
    /\ inputs = [t \in 1..NumInputThreads |-> [pc |-> "idle", ptr |-> 0, msg |-> NoInput]]
    /\ inputCalls = 0
    /\ removers = [t \in 1..NumRemovers |-> [pc |-> "idle", id |-> 0, ptr |-> 0]]
    /\ removeCalls = 0

\* AddPlayer's capacity check with > for >=
RoomIsFullOffByOne(n) == n > MaxPlayersPerRoom

\* `len(r.players) >= config.MaxPlayersPerRoom`
RoomIsFull(n) == n >= MaxPlayersPerRoom

\* the uint16 id counter
IdModulus == 65536

\* AddPlayer: the whole call runs under the Room's exclusive lock
AddPlayer ==
    /\ addCalls < MaxAddCalls
    /\ addCalls' = addCalls + 1
    /\ IF RoomIsFull(Cardinality(DOMAIN players))
       THEN /\ lastAdd' = "ErrRoomFull"
            /\ UNCHANGED <<players, nextPlayerID, heap, connLog, ghost, assignedIds>>
       ELSE LET id == nextPlayerID
                ptr == Len(heap) + 1
                others == {players[i] : i \in DOMAIN players \ {id}}
                joined == SendToAll(Append(connLog, <<>>), others, PlayerJoinFrame(id))
                count == Cardinality(DOMAIN players \cup {id}) % 256
            IN  /\ nextPlayerID' = (id + 1) % IdModulus
                /\ heap' = Append(heap, NewPlayer(id))
                /\ players' = MapPut(id, ptr)
                /\ connLog' = LogEvent(joined, ptr, RoomInfoFrame(count, id))
                /\ ghost' = Append(ghost, NewGhost)
                /\ assignedIds' = Append(assignedIds, id)
                /\ lastAdd' = "ok"
    /\ UNCHANGED <<sched, inputs, inputCalls, removers, removeCalls, tickCount, notRoom>>


\* the ids a caller may pass: those assigned so far and one never assigned
IdChoices == DOMAIN players \cup {heap[q].ID : q \in DOMAIN heap} \cup {nextPlayerID}

\* RemovePlayer announcing the leave of an id it did not find
RemoveLockAnnounce(t, id) ==
    /\ removers[t].pc = "idle"
    /\ removeCalls < MaxRemoveCalls
    /\ removeCalls' = removeCalls + 1
    /\ IF id \in DOMAIN players
       THEN LET ptr == players[id]
            IN  /\ players' = MapDelete(id)
                /\ connLog' = LogEvent(connLog, ptr, <<"Deleted">>)
                /\ ghost' = [ghost EXCEPT ![ptr].deletedBy = "leave",
                                          ![ptr].remaining = Members \ {ptr}]
                /\ removers' = [removers EXCEPT ![t] = [pc |-> "close", id |-> id, ptr |-> ptr]]
       ELSE /\ removers' = [removers EXCEPT ![t] = [pc |-> "broadcast", id |-> id, ptr |-> 0]]
            /\ UNCHANGED <<players, connLog, ghost>>
    /\ UNCHANGED <<nextPlayerID, heap, assignedIds, addCalls, lastAdd, sched,
                   inputs, inputCalls, tickCount, notRoom>>

\* RemovePlayer, under the lock: look the id up and delete it
RemoveLock(t, id) ==
    /\ removers[t].pc = "idle"
    /\ removeCalls < MaxRemoveCalls
    /\ removeCalls' = removeCalls + 1
    /\ IF id \in DOMAIN players
       THEN LET ptr == players[id]
            IN  /\ players' = MapDelete(id)
                /\ connLog' = LogEvent(connLog, ptr, <<"Deleted">>)
                /\ ghost' = [ghost EXCEPT ![ptr].deletedBy = "leave",
                                          ![ptr].remaining = Members \ {ptr}]
                /\ removers' = [removers EXCEPT ![t] = [pc |-> "close", id |-> id, ptr |-> ptr]]
       ELSE UNCHANGED <<players, connLog, ghost, removers>>
    /\ UNCHANGED <<nextPlayerID, heap, assignedIds, addCalls, lastAdd, sched,
                   inputs, inputCalls, tickCount, notRoom>>

\* RemovePlayer, after the lock: `player.Connection.Close()`
RemoveClose(t) ==
    /\ removers[t].pc = "close"
    /\ connLog' = LogEvent(connLog, removers[t].ptr, <<"Close">>)
    /\ removers' = [removers EXCEPT ![t].pc = "broadcast"]
    /\ UNCHANGED <<players, nextPlayerID, heap, ghost, assignedIds, addCalls, lastAdd,
                   sched, inputs, inputCalls, removeCalls, tickCount, notRoom>>

\* RemovePlayer, last: `r.broadcast(leaveMsg)` under the shared lock
RemoveBroadcast(t) ==
    /\ removers[t].pc = "broadcast"
    /\ connLog' = SendToAll(connLog, Members, PlayerLeaveFrame(removers[t].id))
    /\ removers' = [removers EXCEPT ![t] = [pc |-> "idle", id |-> 0, ptr |-> 0]]
    /\ UNCHANGED <<players, nextPlayerID, heap, ghost, assignedIds, addCalls, lastAdd,
                   sched, inputs, inputCalls, removeCalls, tickCount, notRoom>>

\* the Input messages the callers send: (Sequence, Keys, Steering, Throttle, Flags)
InputMessages ==
    {[Sequence |-> 1, Keys |-> 1, Steering |-> 0, Throttle |-> 0, Flags |-> 0],
     [Sequence |-> 2, Keys |-> 9, Steering |-> 0, Throttle |-> 0, Flags |-> 0]}

\* HandleInput, the lookup under the shared lock; an unknown id returns
InputLookup(t, id, msg) ==
    /\ inputs[t].pc = "idle"
    /\ inputCalls < MaxInputCalls
    /\ inputCalls' = inputCalls + 1
    /\ IF id \in DOMAIN players
       THEN inputs' = [inputs EXCEPT ![t] = [pc |-> "rate", ptr |-> players[id], msg |-> msg]]
       ELSE UNCHANGED inputs
    /\ UNCHANGED <<players, nextPlayerID, heap, connLog, ghost, assignedIds, addCalls,
                   lastAdd, sched, removers, removeCalls, tickCount, notRoom>>

\* ValidateInputRate's comparison with >= for >: a fourth input passes
ValidateInputRateLax(count) ==
    IF count > MaxInputsPerTick + 1 THEN "IgnoreInput" ELSE "Valid"

\* ValidateInputRate, on the count IncrementInputCount returned
ValidateInputRate(count) ==
    IF count > MaxInputsPerTick THEN "IgnoreInput" ELSE "Valid"

\* HandleInput, `r.antiCheat.ValidateInputRate(player)`: count the input
\* (IncrementInputCount, under the Player's lock) and drop it if over the limit
InputRate(t) ==
    /\ inputs[t].pc = "rate"
    /\ LET ptr == inputs[t].ptr
           count == heap[ptr].InputsThisTick + 1
       IN  /\ heap' = [heap EXCEPT ![ptr].InputsThisTick = count]
           /\ IF ValidateInputRate(count) = "IgnoreInput"
              THEN /\ inputs' = [inputs EXCEPT ![t] = [pc |-> "idle", ptr |-> 0, msg |-> NoInput]]
                   /\ ghost' = [ghost EXCEPT ![ptr].rejected = @ + 1]
              ELSE /\ inputs' = [inputs EXCEPT ![t].pc = "apply"]
                   /\ ghost' = [ghost EXCEPT ![ptr].admitted = @ + 1]
    /\ UNCHANGED <<players, nextPlayerID, connLog, assignedIds, addCalls, lastAdd,
                   sched, inputCalls, removers, removeCalls, tickCount, notRoom>>

\* HandleInput, `player.ApplyInput(gameInput)` under the Player's lock
InputApply(t) ==
    /\ inputs[t].pc = "apply"
    /\ LET ptr == inputs[t].ptr
       IN  /\ heap' = [heap EXCEPT ![ptr] = ApplyInput(@, inputs[t].msg, inputCalls)]
           /\ ghost' = [ghost EXCEPT ![ptr].applied = @ + 1]
    /\ inputs' = [inputs EXCEPT ![t] = [pc |-> "idle", ptr |-> 0, msg |-> NoInput]]
    /\ UNCHANGED <<players, nextPlayerID, connLog, assignedIds, addCalls, lastAdd,
                   sched, inputCalls, removers, removeCalls, tickCount, notRoom>>

\* the validation loop passing over the participants that have left the map
\* since the snapshot
SchedAdvanceMembers ==
    LET left == {i \in DOMAIN sched.snap : i > sched.idx /\ sched.snap[i] \in Members}
    IN  IF left # {}
        THEN [pc |-> "validate", snap |-> sched.snap,
              idx |-> CHOOSE i \in left : \A j \in left : i <= j]
        ELSE [pc |-> "idle", snap |-> <<>>, idx |-> 0]

\* what the scheduler does after the participant at sched.idx: the next one,
\* or the end of updatePhysics
SchedAdvance ==
    IF sched.idx < Len(sched.snap)
    THEN [pc |-> "validate", snap |-> sched.snap, idx |-> sched.idx + 1]
    ELSE [pc |-> "idle", snap |-> <<>>, idx |-> 0]

\* `atomic.AddUint64(&r.tickCount, 1)` once updatePhysics has returned
SchedTick(next) == IF next.pc = "idle" THEN tickCount + 1 ELSE tickCount

\* updatePhysics, the snapshot of the map under the shared lock
SchedSnapshot(maxTicks) ==
    /\ sched.pc = "idle"
    /\ tickCount < maxTicks
    /\ \E order \in Orderings(Members) :
           sched' = [pc |-> "reset", snap |-> order, idx |-> 0]
    /\ UNCHANGED <<players, nextPlayerID, heap, connLog, ghost, assignedIds, addCalls,
                   lastAdd, inputs, inputCalls, removers, removeCalls, tickCount, notRoom>>

\* updatePhysics, `p.ResetInputCount()` for the snapshot
SchedReset ==
    /\ sched.pc = "reset"
    /\ LET snapped == {sched.snap[i] : i \in DOMAIN sched.snap}
       IN  /\ heap' = [q \in DOMAIN heap |->
                          IF q \in snapped THEN ResetInputCount(heap[q]) ELSE heap[q]]
           /\ ghost' = [q \in DOMAIN ghost |->
                          IF q \in snapped
                          THEN [ghost[q] EXCEPT !.admitted = 0, !.applied = 0, !.rejected = 0]
                          ELSE ghost[q]]
    /\ sched' = [sched EXCEPT !.pc = "physics"]
    /\ UNCHANGED <<players, nextPlayerID, connLog, assignedIds, addCalls, lastAdd,
                   inputs, inputCalls, removers, removeCalls, tickCount, notRoom>>

\* where updatePhysics goes after the collisions: the validation loop, or
\* its end when the snapshot is empty
SchedAfterPhysics ==
    IF Len(sched.snap) = 0
    THEN [pc |-> "idle", snap |-> <<>>, idx |-> 0]
    ELSE [pc |-> "validate", snap |-> sched.snap, idx |-> 1]

\* updatePhysics, integration and collisions as SpecRoom sees them.  A
\* collision displaces the first Player of a pair only, so with at most two
\* participants one Player is displaced in a step, and none when the snapshot
\* holds fewer than two: it is pushed sideways by PushNear (within what
\* ValidatePlayerMovement accepts) or by PushFar (beyond it), or not at all
SchedPhysicsAbstract ==
    /\ sched.pc = "physics"
    /\ IF Len(sched.snap) < 2
       THEN UNCHANGED heap
       ELSE \E i \in DOMAIN sched.snap, push \in {0, PushNear, PushFar} :
                heap' = [heap EXCEPT ![sched.snap[i]].X = @ + push]
    /\ sched' = SchedAfterPhysics
    /\ tickCount' = SchedTick(SchedAfterPhysics)
    /\ UNCHANGED <<players, nextPlayerID, connLog, ghost, assignedIds, addCalls, lastAdd,
                   inputs, inputCalls, removers, removeCalls, notRoom>>

\* updatePhysics, `UpdatePlayer` for the snapshot, `spatialGrid.Update`, and
\* `CheckCollision` for the pairs in the order the grid's map yields them
SchedPhysics ==
    /\ sched.pc = "physics"
    /\ LET moved == IntegrateAll(heap, sched.snap, RoomDt)
       IN  \E pairs \in Orderings(PotentialCollisions(moved, sched.snap)) :
               heap' = ResolveCollisions(moved, pairs, RoomDt)
    /\ sched' = SchedAfterPhysics
    /\ tickCount' = SchedTick(SchedAfterPhysics)
    /\ UNCHANGED <<players, nextPlayerID, connLog, ghost, assignedIds, addCalls, lastAdd,
                   inputs, inputCalls, removers, removeCalls, notRoom>>

\* kickPlayer without its Send: the removal comes first
KickPlayerEntryNoSend == "kickLock"

\* kickPlayer's first statement after the log line: the Send of the Error frame
KickPlayerEntry == "kickSend"

\* updatePhysics, the anti-cheat pass for the participant at sched.idx
SchedValidate ==
    /\ sched.pc = "validate"
    /\ LET ptr == sched.snap[sched.idx]
           p == heap[ptr]
           v == ValidatePlayerMovement(p, RoomDt)
       IN  /\ ghost' = [ghost EXCEPT ![ptr].streak =
                           IF Offending(p, RoomDt) THEN @ + 1 ELSE 0]
           /\ IF v.result = "Kick"
              THEN /\ heap' = [heap EXCEPT ![ptr] = v.player]
                   /\ sched' = [sched EXCEPT !.pc = KickPlayerEntry]
                   /\ UNCHANGED tickCount
              ELSE /\ heap' = [heap EXCEPT ![ptr] = ValidateAndApply(p, RoomDt)]
                   /\ sched' = SchedAdvance
                   /\ tickCount' = SchedTick(SchedAdvance)
    /\ UNCHANGED <<players, nextPlayerID, connLog, assignedIds, addCalls, lastAdd,
                   inputs, inputCalls, removers, removeCalls, notRoom>>

\* kickPlayer, `p.Connection.Send(errMsg)`
SchedKickSend ==
    /\ sched.pc = "kickSend"
    /\ LET ptr == sched.snap[sched.idx]
       IN  /\ connLog' = LogEvent(connLog, ptr, ErrorFrame(ErrorCodeKicked))
           /\ ghost' = [ghost EXCEPT ![ptr].kicks = @ + 1]
    /\ sched' = [sched EXCEPT !.pc = "kickLock"]
    /\ UNCHANGED <<players, nextPlayerID, heap, assignedIds, addCalls, lastAdd,
                   inputs, inputCalls, removers, removeCalls, tickCount, notRoom>>

\* kickPlayer, `r.RemovePlayer(p.ID)`: the lookup and delete under the lock
SchedKickLock ==
    /\ sched.pc = "kickLock"
    /\ LET id == heap[sched.snap[sched.idx]].ID
       IN  IF id \in DOMAIN players
           THEN LET ptr == players[id]
                IN  /\ players' = MapDelete(id)
                    /\ connLog' = LogEvent(connLog, ptr, <<"Deleted">>)
                    /\ ghost' = [ghost EXCEPT ![ptr].deletedBy = "kick",
                                              ![ptr].remaining = Members \ {ptr}]
                    /\ sched' = [sched EXCEPT !.pc = "kickClose"]
                    /\ UNCHANGED tickCount
           ELSE /\ sched' = SchedAdvance
                /\ tickCount' = SchedTick(SchedAdvance)
                /\ UNCHANGED <<players, connLog, ghost>>
    /\ UNCHANGED <<nextPlayerID, heap, assignedIds, addCalls, lastAdd,
                   inputs, inputCalls, removers, removeCalls, notRoom>>

\* kickPlayer's RemovePlayer, `player.Connection.Close()`
SchedKickClose ==
    /\ sched.pc = "kickClose"
    /\ connLog' = LogEvent(connLog, sched.snap[sched.idx], <<"Close">>)
    /\ sched' = [sched EXCEPT !.pc = "kickBroadcast"]
    /\ UNCHANGED <<players, nextPlayerID, heap, ghost, assignedIds, addCalls, lastAdd,
                   inputs, inputCalls, removers, removeCalls, tickCount, notRoom>>

\* kickPlayer's RemovePlayer, `r.broadcast(leaveMsg)`
SchedKickBroadcast ==
    /\ sched.pc = "kickBroadcast"
    /\ connLog' = SendToAll(connLog, Members,
                            PlayerLeaveFrame(heap[sched.snap[sched.idx]].ID))
    /\ sched' = SchedAdvance
    /\ tickCount' = SchedTick(SchedAdvance)
    /\ UNCHANGED <<players, nextPlayerID, heap, ghost, assignedIds, addCalls, lastAdd,
                   inputs, inputCalls, removers, removeCalls, notRoom>>

(***************************************************************************)
(* The simulation step and HandleInput as single steps  (room.go 159-188,  *)
(* 242-284, 365-379), with the real integration and collisions             *)
(***************************************************************************)
\* the step lengths gameLoop passes to updatePhysics, in milliseconds: the
\* elapsed time, capped at 100
StepLengths == {ShortDt, RoomDt}

PhysInit == shortSteps = 0

\* the Input messages of SpecPhys: accelerate, brake
DriveMessages ==
    {[Sequence |-> 1, Keys |-> 1, Steering |-> 0, Throttle |-> 0, Flags |-> 0],
     [Sequence |-> 2, Keys |-> 2, Steering |-> 0, Throttle |-> 0, Flags |-> 0]}

\* the Room as the validation loop sees and changes it
RoomState == [players |-> players, heap |-> heap, connLog |-> connLog, ghost |-> ghost]

\* RemovePlayer(id) run to its end on st
RemovePlayerFrom(st, id, by) ==
    IF id \notin DOMAIN st.players THEN st
    ELSE LET ptr == st.players[id]
             left == [i \in DOMAIN st.players \ {id} |-> st.players[i]]
             rest == {left[i] : i \in DOMAIN left}
             closed == LogEvent(LogEvent(st.connLog, ptr, <<"Deleted">>), ptr, <<"Close">>)
         IN  [players |-> left,
              heap |-> st.heap,
              connLog |-> SendToAll(closed, rest, PlayerLeaveFrame(id)),
              ghost |-> [st.ghost EXCEPT ![ptr].deletedBy = by, ![ptr].remaining = rest]]

\* kickPlayer(p) run to its end on st
KickPlayerFrom(st, ptr) ==
    RemovePlayerFrom(
        [st EXCEPT !.connLog = LogEvent(@, ptr, ErrorFrame(ErrorCodeKicked)),
                   !.ghost = [@ EXCEPT ![ptr].kicks = @ + 1]],
        st.heap[ptr].ID, "kick")

\* updatePhysics' validation of the Player ptr
ValidateOne(st, ptr, dt) ==
    LET p == st.heap[ptr]
        v == ValidatePlayerMovement(p, dt)
        counted == [st EXCEPT !.ghost = [@ EXCEPT ![ptr].streak =
                                            IF Offending(p, dt) THEN @ + 1 ELSE 0]]
    IN  IF v.result = "Kick"
        THEN KickPlayerFrom([counted EXCEPT !.heap = [@ EXCEPT ![ptr] = v.player]], ptr)
        ELSE [counted EXCEPT !.heap = [@ EXCEPT ![ptr] = ValidateAndApply(p, dt)]]

\* updatePhysics' validation loop over the snapshot
RECURSIVE ValidateAll(_, _, _)
ValidateAll(st, snap, dt) ==
    IF snap = <<>> THEN st
    ELSE ValidateAll(ValidateOne(st, Head(snap), dt), Tail(snap), dt)

\* updatePhysics' input-count reset for the snapshot
RECURSIVE ResetAll(_, _)
ResetAll(st, snap) ==
    IF snap = <<>> THEN st
    ELSE ResetAll([st EXCEPT !.heap[Head(snap)] = ResetInputCount(@),
                             !.ghost[Head(snap)].admitted = 0,
                             !.ghost[Head(snap)].applied = 0,
                             !.ghost[Head(snap)].rejected = 0],
                  Tail(snap))

\* the time the simulation steps taken so far have covered, in milliseconds
Clock == shortSteps * ShortDt + (tickCount - shortSteps) * RoomDt

\* `p.ExplodedAt = time.Now()` for the Players the step has exploded
StampExploded(st, now) ==
    [q \in DOMAIN st.ghost |->
        IF st.heap[q].Exploded /\ ~heap[q].Exploded
        THEN [st.ghost[q] EXCEPT !.explodedAt = now]
        ELSE st.ghost[q]]

\* for the Players the step leaves in the map: whether it moved them
\* further than ValidatePlayerMovement allows for dt
NoteOverstep(gh, st, dt) ==
    [q \in DOMAIN gh |->
        IF q \in {st.players[i] : i \in DOMAIN st.players}
        THEN [gh[q] EXCEPT !.overstep =
                 DistGreater(st.heap[q].X - heap[q].X, st.heap[q].Y - heap[q].Y,
                             MaxPossibleDistance(dt))]
        ELSE gh[q]]

\* updatePhysics(dt) on the Room; now is the time at its end
StepRoom(dt, now) ==
       \E snap \in Orderings(Members) :
       \E reset \in {ResetAll(RoomState, snap)} :
       \E moved \in {IntegrateAll(reset.heap, snap, dt)} :
       \E pairs \in Orderings(PotentialCollisions(moved, snap)) :
       \E resolved \in {ResolveCollisions(moved, pairs, dt)} :
       \E st \in {ValidateAll([reset EXCEPT !.heap = resolved], snap, dt)} :
           /\ players' = st.players
           /\ heap' = st.heap
           /\ connLog' = st.connLog
           /\ ghost' = NoteOverstep(StampExploded(st, now), st, dt)

\* one whole simulation step: updatePhysics(dt), then the tick counter
UpdatePhysics(dt) ==
    /\ tickCount < MaxPhysTicks
    /\ dt = ShortDt => shortSteps < MaxShortSteps
    /\ tickCount' = tickCount + 1
    /\ shortSteps' = IF dt = ShortDt THEN shortSteps + 1 ELSE shortSteps
    /\ StepRoom(dt, Clock + dt)
    /\ UNCHANGED <<nextPlayerID, assignedIds, addCalls, lastAdd, sched, inputs, inputCalls,
                   removers, removeCalls, lifeButTick, mmVars, lockVars, sendVars,
                   calcVars, connVars>>

\* a simulation step of a Room that runs for seconds: gameLoop's steps of
\* RoomDt each
LongStep ==
    /\ tickCount < MaxLongTicks
    /\ tickCount' = tickCount + 1
    /\ StepRoom(RoomDt, Clock + RoomDt)
    /\ UNCHANGED <<shortSteps, nextPlayerID, assignedIds, addCalls, lastAdd, sched, inputs,
                   inputCalls, removers, removeCalls, lifeButTick, mmVars, lockVars,
                   sendVars, calcVars, connVars>>

\* one whole HandleInput(id, msg) call
HandleInput(id, msg) ==
    /\ inputCalls < MaxPhysInputs
    /\ inputCalls' = inputCalls + 1
    /\ IF id \notin DOMAIN players
       THEN UNCHANGED <<heap, ghost>>
       ELSE LET ptr == players[id]
                count == heap[ptr].InputsThisTick + 1
                counted == [heap[ptr] EXCEPT !.InputsThisTick = count]
            IN  IF ValidateInputRate(count) = "IgnoreInput"
                THEN /\ heap' = [heap EXCEPT ![ptr] = counted]
                     /\ ghost' = [ghost EXCEPT ![ptr].rejected = @ + 1]
                ELSE /\ heap' = [heap EXCEPT ![ptr] = ApplyInput(counted, msg, inputCalls)]
                     /\ ghost' = [ghost EXCEPT ![ptr].admitted = @ + 1,
                                               ![ptr].applied = @ + 1]
    /\ UNCHANGED <<players, nextPlayerID, connLog, assignedIds, addCalls, lastAdd, sched,
                   inputs, removers, removeCalls, tickCount, notRoom>>

\* the Input messages of SpecLong: accelerate while steering right or left
SteerMessages ==
    {[Sequence |-> 1, Keys |-> 9, Steering |-> 0, Throttle |-> 0, Flags |-> 0],
     [Sequence |-> 2, Keys |-> 5, Steering |-> 0, Throttle |-> 0, Flags |-> 0]}

LongNext ==
    \/ \E id \in DOMAIN players, msg \in SteerMessages : HandleInput(id, msg)
    \/ LongStep

PhysNext ==
    \/ AddPlayer
    \/ \E id \in IdChoices, msg \in DriveMessages : HandleInput(id, msg)
    \/ \E dt \in StepLengths : UpdatePhysics(dt)

RoomNext ==
    \/ AddPlayer
    \/ \E t \in DOMAIN removers, id \in IdChoices : RemoveLock(t, id)
    \/ \E t \in DOMAIN removers : RemoveClose(t)
    \/ \E t \in DOMAIN removers : RemoveBroadcast(t)
    \/ SchedSnapshot(MaxRoomTicks)
    \/ SchedReset
    \/ SchedPhysicsAbstract
    \/ SchedValidate
    \/ SchedKickSend
    \/ SchedKickLock
    \/ SchedKickClose
    \/ SchedKickBroadcast

\* the Room's entry points called from the connections, the scheduler at rest
CallsNext ==
    \/ AddPlayer
    \/ \E t \in DOMAIN removers, id \in IdChoices : RemoveLock(t, id)
    \/ \E t \in DOMAIN removers : RemoveClose(t)
    \/ \E t \in DOMAIN removers : RemoveBroadcast(t)
    \/ \E t \in DOMAIN inputs, id \in IdChoices, msg \in InputMessages : InputLookup(t, id, msg)
    \/ \E t \in DOMAIN inputs : InputRate(t)
    \/ \E t \in DOMAIN inputs : InputApply(t)

InputNext ==
    \/ AddPlayer
    \/ \E t \in DOMAIN inputs, id \in IdChoices, msg \in InputMessages : InputLookup(t, id, msg)
    \/ \E t \in DOMAIN inputs : InputRate(t)
    \/ \E t \in DOMAIN inputs : InputApply(t)
    \/ SchedSnapshot(MaxInputTicks)
    \/ SchedReset
    \/ SchedPhysics
    \/ SchedValidate

(***************************************************************************)
(* Matchmaker  (matchmaker.go) and handleJoin  (main.go 339-382)           *)
(***************************************************************************)
Joiners == 1..NumJoiners

\* NewMatchmaker: no Room yet
MMInit ==
    /\ mm = [rooms |-> {}, objs |-> <<>>, mu |-> "free"]
    /\ cleaner = [pc |-> "idle", todo |-> {}, cur |-> 0]
    /\ joiners = [t \in Joiners |-> [pc |-> "idle", room |-> 0, last |-> "none"]]
    /\ mmCalls = [joins |-> 0, leaves |-> 0, cleanups |-> 0]

\* game.NewRoom followed by room.Start(), as FindRoom creates a Room
NewRoom == [count |-> 0, running |-> TRUE]

\* FindRoom's room-count check with > for >=
ServerIsFullOffByOne(n) == n > MaxRoomsPerServer

\* `len(m.rooms) >= config.MaxRoomsPerServer`
ServerIsFull(n) == n >= MaxRoomsPerServer

\* handleJoin, `c.server.matchmaker.FindRoom()`: the whole call holds
\* Matchmaker.mu.  The map iteration yields any Room with space first; with
\* none, a Room is created unless the server is full
FindRoom(t) ==
    /\ joiners[t].pc = "idle"
    /\ mm.mu = "free"
    /\ mmCalls.joins < MaxJoins
    /\ mmCalls' = [mmCalls EXCEPT !.joins = @ + 1]
    /\ LET open == {r \in mm.rooms : mm.objs[r].count < MaxPlayersPerRoom}
           fresh == Len(mm.objs) + 1
       IN  IF open # {}
           THEN /\ \E r \in open :
                       joiners' = [joiners EXCEPT ![t] = [pc |-> "add", room |-> r,
                                                          last |-> "none"]]
                /\ UNCHANGED mm
           ELSE IF ServerIsFull(Cardinality(mm.rooms))
           THEN /\ joiners' = [joiners EXCEPT ![t].last = "ServerFull"]
                /\ UNCHANGED mm
           ELSE /\ mm' = [mm EXCEPT !.rooms = @ \cup {fresh},
                                    !.objs = Append(@, NewRoom)]
                /\ joiners' = [joiners EXCEPT ![t] = [pc |-> "add", room |-> fresh,
                                                      last |-> "none"]]
    /\ UNCHANGED <<cleaner, notMM>>

\* handleJoin, `room.AddPlayer(...)` on the Room FindRoom returned: it takes
\* the Room's lock, not the Matchmaker's
JoinAddPlayer(t) ==
    /\ joiners[t].pc = "add"
    /\ LET r == joiners[t].room
       IN  IF RoomIsFull(mm.objs[r].count)
           THEN /\ joiners' = [joiners EXCEPT ![t] = [pc |-> "idle", room |-> 0,
                                                      last |-> "ErrRoomFull"]]
                /\ UNCHANGED mm
           ELSE /\ joiners' = [joiners EXCEPT ![t] = [pc |-> "idle", room |-> 0,
                                                      last |-> "ok"]]
                /\ mm' = [mm EXCEPT !.objs[r].count = @ + 1]
    /\ UNCHANGED <<cleaner, mmCalls, notMM>>

\* handleLeave / cleanup of a connection: `c.room.RemovePlayer(c.player.ID)`
LeaveRoom(r) ==
    /\ mmCalls.leaves < MaxLeaves
    /\ mm.objs[r].count > 0
    /\ mm' = [mm EXCEPT !.objs[r].count = @ - 1]
    /\ mmCalls' = [mmCalls EXCEPT !.leaves = @ + 1]
    /\ UNCHANGED <<cleaner, joiners, notMM>>

\* CleanupEmptyRooms, `m.mu.Lock()` and the start of the range over m.rooms
CleanupLock ==
    /\ cleaner.pc = "idle"
    /\ mm.mu = "free"
    /\ mmCalls.cleanups < MaxCleanups
    /\ mmCalls' = [mmCalls EXCEPT !.cleanups = @ + 1]
    /\ mm' = [mm EXCEPT !.mu = "cleanup"]
    /\ cleaner' = [pc |-> "range", todo |-> mm.rooms, cur |-> 0]
    /\ UNCHANGED <<joiners, notMM>>

\* CleanupEmptyRooms, the next Room of the range and `if room.IsEmpty()`
\* (IsEmpty holds the Room's read lock for the length of the call only)
CleanupIsEmpty ==
    /\ cleaner.pc = "range"
    /\ \E r \in cleaner.todo :
           cleaner' = [pc |-> IF mm.objs[r].count = 0 THEN "stop" ELSE "range",
                       todo |-> cleaner.todo \ {r},
                       cur |-> r]
    /\ UNCHANGED <<mm, joiners, mmCalls, notMM>>

\* CleanupEmptyRooms, `room.Stop()`
CleanupStop ==
    /\ cleaner.pc = "stop"
    /\ mm' = [mm EXCEPT !.objs[cleaner.cur].running = FALSE]
    /\ cleaner' = [cleaner EXCEPT !.pc = "delete"]
    /\ UNCHANGED <<joiners, mmCalls, notMM>>

\* CleanupEmptyRooms, `delete(m.rooms, id)`
CleanupDelete ==
    /\ cleaner.pc = "delete"
    /\ mm' = [mm EXCEPT !.rooms = @ \ {cleaner.cur}]
    /\ cleaner' = [cleaner EXCEPT !.pc = "range"]
    /\ UNCHANGED <<joiners, mmCalls, notMM>>

\* CleanupEmptyRooms, the end of the range and the deferred `m.mu.Unlock()`
CleanupUnlock ==
    /\ cleaner.pc = "range"
    /\ cleaner.todo = {}
    /\ mm' = [mm EXCEPT !.mu = "free"]
    /\ cleaner' = [pc |-> "idle", todo |-> {}, cur |-> 0]
    /\ UNCHANGED <<joiners, mmCalls, notMM>>

MMNext ==
    \/ \E t \in Joiners : FindRoom(t)
    \/ \E t \in Joiners : JoinAddPlayer(t)
    \/ \E r \in DOMAIN mm.objs : LeaveRoom(r)
    \/ CleanupLock
    \/ CleanupIsEmpty
    \/ CleanupStop
    \/ CleanupDelete
    \/ CleanupUnlock

(***************************************************************************)
(* The mutexes: which locks each operation takes, in which order, and what *)
(* it holds while it waits.  One Matchmaker, one Room with its spatial     *)
(* grid, two Players.  Sends are left out: ClientConnection.Send never     *)
(* blocks.                                                                 *)
(***************************************************************************)
PlayerLocks == {"p1", "p2"}

Locks == {"m", "r", "g"} \cup PlayerLocks

\* `x.mu.Lock(); ...; x.mu.Unlock()` with no other lock taken in between
Pair(l) == <<<<"Lock", l>>, <<"Unlock", l>>>>

\* `x.mu.RLock(); ...; x.mu.RUnlock()` with no other lock taken in between
RPair(l) == <<<<"RLock", l>>, <<"RUnlock", l>>>>

\* Matchmaker.FindRoom: m.mu held over room.GetPlayerCount()
FindRoomLocks == <<<<"Lock", "m">>>> \o RPair("r") \o <<<<"Unlock", "m">>>>

\* Matchmaker.GetStats: m.mu read-held over room.GetPlayerCount()
GetStatsLocks == <<<<"RLock", "m">>>> \o RPair("r") \o <<<<"RUnlock", "m">>>>

\* Matchmaker.CleanupEmptyRooms: m.mu held over room.IsEmpty(); Stop and
\* delete take no lock
CleanupLocks == <<<<"Lock", "m">>>> \o RPair("r") \o <<<<"Unlock", "m">>>>

\* Room.AddPlayer: r.mu held over player.SaveValidPosition()
AddPlayerLocks(p) == <<<<"Lock", "r">>>> \o Pair(p) \o <<<<"Unlock", "r">>>>

\* Room.RemovePlayer with the unlock deferred to the end of the call: the
\* broadcast runs with r.mu still held
RemovePlayerLocksDeferred == <<<<"Lock", "r">>>> \o RPair("r") \o <<<<"Unlock", "r">>>>

\* Room.RemovePlayer: r.mu for the delete, released, then Room.broadcast
RemovePlayerLocks == Pair("r") \o RPair("r")

\* Room.HandleInput: the lookup, IncrementInputCount, ApplyInput
HandleInputLocks(p) == RPair("r") \o Pair(p) \o Pair(p)

\* Physics.CheckCollision(a, b): `p1.mu.Lock(); p2.mu.RLock()` and the
\* unlocks in the same order
CheckCollisionLocks(a, b) ==
    <<<<"Lock", a>>, <<"RLock", b>>, <<"Unlock", a>>, <<"RUnlock", b>>>>

\* SpatialGrid.Update: g.mu held over each Player's read lock
GridUpdateLocks(a, b) ==
    <<<<"Lock", "g">>>> \o RPair(a) \o RPair(b) \o <<<<"Unlock", "g">>>>

\* Room.updatePhysics for the snapshot <<a, b>>: the snapshot, the reset and
\* UpdatePlayer of each Player, the grid, the collision of the pair <<x, y>>,
\* the validation of each Player, and a kick when `kick` holds
UpdatePhysicsLocks(a, b, x, y, kick) ==
    RPair("r") \o Pair(a) \o Pair(b)
    \o GridUpdateLocks(a, b) \o RPair("g")
    \o CheckCollisionLocks(x, y)
    \o RPair(a) \o Pair(a)
    \o (IF kick THEN RemovePlayerLocks ELSE <<>>)
    \o RPair(b) \o Pair(b)

\* Room.broadcastState: the snapshot, GetState of each Player, Room.broadcast
BroadcastStateLocks(a, b) == RPair("r") \o RPair(a) \o RPair(b) \o RPair("r")

\* what the scheduler thread of the Room runs
SchedulerPrograms ==
    {UpdatePhysicsLocks(a, b, x, y, kick) :
         <<a, b, x, y, kick>> \in
             {q \in PlayerLocks \X PlayerLocks \X PlayerLocks \X PlayerLocks \X BOOLEAN :
                  q[1] # q[2] /\ q[3] # q[4]}}
    \cup {BroadcastStateLocks(a, b) :
              <<a, b>> \in {q \in PlayerLocks \X PlayerLocks : q[1] # q[2]}}

\* what the connection threads, the cleanup ticker and the stats endpoint run
CallerPrograms ==
    {FindRoomLocks, GetStatsLocks, CleanupLocks, RemovePlayerLocks}
    \cup {AddPlayerLocks(p) : p \in PlayerLocks}
    \cup {HandleInputLocks(p) : p \in PlayerLocks}

\* thread 0 is the Room's scheduler, the others are callers
LockThreads == 0..NumLockCallers

Programs(t) == IF t = 0 THEN SchedulerPrograms ELSE CallerPrograms

LockInit ==
    /\ lk = [l \in Locks |-> [w |-> -1, rs |-> {}, pend |-> {}]]
    /\ thr = [t \in LockThreads |-> [prog |-> <<>>, calls |-> 0]]

\* sync.RWMutex: Lock succeeds with no writer and no reader inside
CanLock(l) == lk[l].w = -1 /\ lk[l].rs = {}

\* sync.RWMutex: RLock succeeds with no writer inside and no Lock call blocked
CanRLock(l) == lk[l].w = -1 /\ lk[l].pend = {}

\* a thread enters one of its operations
LockBegin(t, prog) ==
    /\ thr[t].prog = <<>>
    /\ thr[t].calls < MaxLockCalls
    /\ thr' = [thr EXCEPT ![t] = [prog |-> prog, calls |-> @.calls + 1]]
    /\ UNCHANGED <<lk, notLock>>

\* mu.Lock() returns
LockAcquire(t) ==
    /\ thr[t].prog # <<>>
    /\ Head(thr[t].prog)[1] = "Lock"
    /\ LET l == Head(thr[t].prog)[2]
       IN  /\ CanLock(l)
           /\ lk' = [lk EXCEPT ![l].w = t, ![l].pend = @ \ {t}]
    /\ thr' = [thr EXCEPT ![t].prog = Tail(@)]
    /\ UNCHANGED notLock

\* mu.Lock() blocks: from now on it holds new readers off
LockWait(t) ==
    /\ thr[t].prog # <<>>
    /\ Head(thr[t].prog)[1] = "Lock"
    /\ LET l == Head(thr[t].prog)[2]
       IN  /\ ~CanLock(l)
           /\ t \notin lk[l].pend
           /\ lk' = [lk EXCEPT ![l].pend = @ \cup {t}]
    /\ UNCHANGED <<thr, notLock>>

\* mu.RLock() returns
RLockAcquire(t) ==
    /\ thr[t].prog # <<>>
    /\ Head(thr[t].prog)[1] = "RLock"
    /\ LET l == Head(thr[t].prog)[2]
       IN  /\ CanRLock(l)
           /\ lk' = [lk EXCEPT ![l].rs = @ \cup {t}]
    /\ thr' = [thr EXCEPT ![t].prog = Tail(@)]
    /\ UNCHANGED notLock

\* mu.Unlock()
LockRelease(t) ==
    /\ thr[t].prog # <<>>
    /\ Head(thr[t].prog)[1] = "Unlock"
    /\ lk' = [lk EXCEPT ![Head(thr[t].prog)[2]].w = -1]
    /\ thr' = [thr EXCEPT ![t].prog = Tail(@)]
    /\ UNCHANGED notLock

\* mu.RUnlock()
RLockRelease(t) ==
    /\ thr[t].prog # <<>>
    /\ Head(thr[t].prog)[1] = "RUnlock"
    /\ lk' = [lk EXCEPT ![Head(thr[t].prog)[2]].rs = @ \ {t}]
    /\ thr' = [thr EXCEPT ![t].prog = Tail(@)]
    /\ UNCHANGED notLock

LockNext ==
    \/ \E t \in LockThreads : \E prog \in Programs(t) : LockBegin(t, prog)
    \/ \E t \in LockThreads : LockAcquire(t)
    \/ \E t \in LockThreads : LockWait(t)
    \/ \E t \in LockThreads : RLockAcquire(t)
    \/ \E t \in LockThreads : LockRelease(t)
    \/ \E t \in LockThreads : RLockRelease(t)

(***************************************************************************)
(* The same threads with what they do between the lock calls: the writes   *)
(* to a Player's fields, GetState's reads, and the calls of Send and Close *)
(* on a Player's connection.  The Room holds the Players p1 and p2.        *)
(***************************************************************************)
\* the steps of a call that are no lock operations
OpKinds == {"Init", "Write", "Read", "Send", "Close"}

\* a method of Player that writes fields: `p.mu.Lock(); defer p.mu.Unlock()`
Writes(q) == <<<<"Lock", q>>, <<"Write", q>>, <<"Unlock", q>>>>

\* Player.GetState
GetState(q) == <<<<"RLock", q>>, <<"Read", q>>, <<"RUnlock", q>>>>

\* Room.broadcast to the Players a and b, and to a alone
BroadcastOps(a, b) ==
    <<<<"RLock", "r">>, <<"Send", a>>, <<"Send", b>>, <<"RUnlock", "r">>>>
BroadcastOneOps(a) == <<<<"RLock", "r">>, <<"Send", a>>, <<"RUnlock", "r">>>>

\* Room.AddPlayer of the Player q next to the Player other: `player.X = ...;
\* player.Y = 0` on the new Player, SaveValidPosition, the PlayerJoin to the
\* others and the RoomInfo to the new Player, all before the deferred unlock
AddPlayerOps(q, other) ==
    <<<<"Lock", "r">>, <<"Init", q>>>> \o Writes(q)
    \o <<<<"Send", other>>, <<"Send", q>>, <<"Unlock", "r">>>>

\* Room.RemovePlayer of the Player q, other staying
RemovePlayerOps(q, other) ==
    Pair("r") \o <<<<"Close", q>>>> \o BroadcastOneOps(other)

\* Room.HandleInput: the lookup, IncrementInputCount, ApplyInput
HandleInputOps(q) == RPair("r") \o Writes(q) \o Writes(q)

\* CheckCollision writing the second Player as well
CheckCollisionOpsBoth(a, b) ==
    <<<<"Lock", a>>, <<"RLock", b>>, <<"Write", a>>, <<"Write", b>>,
      <<"Unlock", a>>, <<"RUnlock", b>>>>

\* Physics.CheckCollision(a, b): only the first Player is pushed
CheckCollisionOps(a, b) ==
    <<<<"Lock", a>>, <<"RLock", b>>, <<"Write", a>>, <<"Unlock", a>>, <<"RUnlock", b>>>>

\* updatePhysics' validation of the Player q: ValidatePlayerMovement, then
\* the kick, or the verdict applied, ValidatePosition and its verdict applied
ValidateOps(q, other, kick) ==
    RPair(q) \o Writes(q)
    \o (IF kick
        THEN <<<<"Send", q>>>> \o RemovePlayerOps(q, other)
        ELSE Writes(q) \o RPair(q) \o Writes(q))

\* Room.updatePhysics for the snapshot <<a, b>>
UpdatePhysicsOps(a, b, x, y, kick) ==
    RPair("r") \o Writes(a) \o Writes(b) \o Writes(a) \o Writes(b)
    \o GridUpdateLocks(a, b) \o RPair("g")
    \o CheckCollisionOps(x, y)
    \o ValidateOps(a, b, kick) \o ValidateOps(b, a, FALSE)

\* Room.broadcastState
BroadcastStateOps(a, b) == RPair("r") \o GetState(a) \o GetState(b) \o BroadcastOps(a, b)

\* the other Player of the Room
OtherPlayer(q) == CHOOSE o \in PlayerLocks : o # q

\* what the scheduler and the connection threads run
OpPrograms(t) ==
    IF t = 0
    THEN {UpdatePhysicsOps(a, OtherPlayer(a), x, OtherPlayer(x), kick) :
              <<a, x, kick>> \in PlayerLocks \X PlayerLocks \X BOOLEAN}
         \cup {BroadcastStateOps(a, OtherPlayer(a)) : a \in PlayerLocks}
    ELSE {AddPlayerOps(q, OtherPlayer(q)) : q \in PlayerLocks}
         \cup {RemovePlayerOps(q, OtherPlayer(q)) : q \in PlayerLocks}
         \cup {HandleInputOps(q) : q \in PlayerLocks}

\* a step of a call that takes or releases no lock
OpStep(t) ==
    /\ thr[t].prog # <<>>
    /\ Head(thr[t].prog)[1] \in OpKinds
    /\ thr' = [thr EXCEPT ![t].prog = Tail(@)]
    /\ UNCHANGED <<lk, notLock>>

OpsNext ==
    \/ \E t \in LockThreads : \E prog \in OpPrograms(t) : LockBegin(t, prog)
    \/ \E t \in LockThreads : LockAcquire(t)
    \/ \E t \in LockThreads : LockWait(t)
    \/ \E t \in LockThreads : RLockAcquire(t)
    \/ \E t \in LockThreads : LockRelease(t)
    \/ \E t \in LockThreads : RLockRelease(t)
    \/ \E t \in LockThreads : OpStep(t)

(***************************************************************************)
(* ClientConnection.Send, writePump and Room.broadcast  (main.go 215-272,  *)
(* room.go 324-341)                                                        *)
(***************************************************************************)
Conns == 1..NumConns

\* handleWebSocket for each connection, and the Players joined
SendInit ==
    /\ conns = [c \in Conns |-> [sendChan |-> <<>>, done |-> FALSE,
                                 pump |-> "running", wire |-> <<>>]]
    /\ inRoom = Conns
    /\ caster = [pc |-> "idle", todo |-> {}, frame |-> 0, casts |-> 0,
                 dropped |-> {}, queued |-> {}]

\* Send without its default case: the caller waits for room in the buffer
SendOutcomesBlocking(c, frame) ==
    (IF Len(c.sendChan) < SendBufferSize THEN {Append(c.sendChan, frame)} ELSE {})
    \cup (IF c.done THEN {c.sendChan} ELSE {})

\* ClientConnection.Send: what sendChan can hold when the call returns.  The
\* select takes any ready case: the buffer has room, done is closed; default
\* when neither is
SendOutcomes(c, frame) ==
    LET room == Len(c.sendChan) < SendBufferSize
    IN  (IF room THEN {Append(c.sendChan, frame)} ELSE {})
        \cup (IF c.done THEN {c.sendChan} ELSE {})
        \cup (IF ~room /\ ~c.done THEN {c.sendChan} ELSE {})

\* Room.broadcast: the read lock and the start of the range over r.players
CastBegin ==
    /\ caster.pc = "idle"
    /\ caster.casts < MaxCasts
    /\ caster' = [pc |-> "send", todo |-> inRoom, frame |-> caster.casts + 1,
                  casts |-> caster.casts + 1, dropped |-> {}, queued |-> {}]
    /\ UNCHANGED <<conns, inRoom, notSend>>

\* broadcastUnlocked: `p.Connection.Send(data)` for the next Player of the range
CastSend(c) ==
    /\ caster.pc = "send"
    /\ c \in caster.todo
    /\ \E q \in SendOutcomes(conns[c], caster.frame) :
           /\ conns' = [conns EXCEPT ![c].sendChan = q]
           /\ caster' = [caster EXCEPT
                            !.todo = @ \ {c},
                            !.dropped = IF q = conns[c].sendChan THEN @ \cup {c} ELSE @,
                            !.queued = IF q # conns[c].sendChan THEN @ \cup {c} ELSE @]
    /\ UNCHANGED <<inRoom, notSend>>

\* Room.broadcast: the end of the range, the read lock released
CastEnd ==
    /\ caster.pc = "send"
    /\ caster.todo = {}
    /\ caster' = [caster EXCEPT !.pc = "idle"]
    /\ UNCHANGED <<conns, inRoom, notSend>>

\* writePump, `case message := <-c.sendChan` and the write to the socket
PumpWrite(c) ==
    /\ conns[c].pump = "running"
    /\ conns[c].sendChan # <<>>
    /\ conns' = [conns EXCEPT ![c].sendChan = Tail(@),
                              ![c].wire = Append(@, Head(conns[c].sendChan))]
    /\ UNCHANGED <<inRoom, caster, notSend>>

\* writePump, `case <-c.done: return`
PumpExit(c) ==
    /\ conns[c].pump = "running"
    /\ conns[c].done
    /\ conns' = [conns EXCEPT ![c].pump = "exited"]
    /\ UNCHANGED <<inRoom, caster, notSend>>

\* Room.RemovePlayer for the Player of connection c: the delete under the
\* Room's lock, which a fan-out in progress holds off, then Connection.Close
LeaveAndClose(c) ==
    /\ caster.pc = "idle"
    /\ c \in inRoom
    /\ inRoom' = inRoom \ {c}
    /\ conns' = [conns EXCEPT ![c].done = TRUE]
    /\ UNCHANGED <<caster, notSend>>

SendNext ==
    \/ CastBegin
    \/ \E c \in Conns : CastSend(c)
    \/ CastEnd
    \/ \E c \in Conns : PumpWrite(c)
    \/ \E c \in Conns : PumpExit(c)
    \/ \E c \in Conns : LeaveAndClose(c)

(***************************************************************************)
(* ClientConnection: handleMessage and its handlers, cleanup and Close     *)
(* (main.go 230-241, 279-439).  A message is the record of its type tag,   *)
(* its length and, for JoinRoom, its name-length byte.                     *)
(***************************************************************************)
Clients == 1..NumClients

\* the goroutines that call Close: the two pumps of each connection and the
\* Room's scheduler inside kickPlayer
PumpIds == (Clients \X {"read", "write"}) \cup {<<0, "kick">>}

\* handleWebSocket for each connection; no Room yet
ConnInit ==
    /\ client = [c \in Clients |->
                    [player |-> 0, room |-> 0, done |-> "open", sent |-> <<>>, msgs |-> 0]]
    /\ part = <<>>
    /\ roster = <<>>
    /\ pumps = [g \in PumpIds |->
                   [pc |-> IF g[2] = "kick" THEN "idle" ELSE "run", c |-> g[1]]]
    /\ connPanic = FALSE

\* the messages a client sends: well-formed ones, undersized ones, an empty
\* one and one with a tag the server does not take
Messages ==
    {[type |-> "none", len |-> 0, nameLen |-> 0],
     [type |-> "JoinRoom", len |-> 7, nameLen |-> 4],
     [type |-> "JoinRoom", len |-> 6, nameLen |-> 4],
     [type |-> "JoinRoom", len |-> 2, nameLen |-> 0],
     [type |-> "Input", len |-> 6, nameLen |-> 0],
     [type |-> "Input", len |-> 5, nameLen |-> 0],
     [type |-> "Ping", len |-> 9, nameLen |-> 0],
     [type |-> "Ping", len |-> 8, nameLen |-> 0],
     [type |-> "LeaveRoom", len |-> 1, nameLen |-> 0],
     [type |-> "StateUpdate", len |-> 20, nameLen |-> 0]}

\* Protocol.DecodeJoin: the error, or "ok"
DecodeJoin(data) ==
    IF data.len < 3 THEN "ErrBufferTooSmall"
    ELSE IF data.type # "JoinRoom" THEN "ErrInvalidMessage"
    ELSE IF data.len < 3 + data.nameLen THEN "ErrBufferTooSmall"
    ELSE "ok"

\* DecodeInput without its length check
DecodeInputAnyLength(data) ==
    IF data.type # "Input" THEN "ErrInvalidMessage" ELSE "ok"

\* Protocol.DecodeInput: the error, or "ok"
DecodeInput(data) ==
    IF data.len < 6 THEN "ErrBufferTooSmall"
    ELSE IF data.type # "Input" THEN "ErrInvalidMessage"
    ELSE "ok"

\* Connection.Send(frame) called on each connection of targets
Deliver(st, targets, frame) ==
    [st EXCEPT !.client = [c \in DOMAIN st.client |->
                              IF c \in targets
                              THEN [st.client[c] EXCEPT !.sent = Append(@, frame)]
                              ELSE st.client[c]]]

\* the connections of the Players in Room r's map
Owners(st, r) == {st.part[q].owner : q \in st.roster[r]}

\* Room.AddPlayer(..., c) on Room r, which has space: the new Player, the
\* PlayerJoin to the others, the RoomInfo to the joiner; then handleJoin's
\* `c.player = player; c.room = room`
JoinRoom(st, c, r) ==
    LET ptr == Len(st.part) + 1
        others == IF r \in DOMAIN st.roster THEN Owners(st, r) ELSE {}
        told == Deliver(st, others, PlayerJoinFrame(ptr))
        count == IF r \in DOMAIN st.roster THEN Cardinality(st.roster[r]) + 1 ELSE 1
        added == [told EXCEPT
                    !.part = Append(@, [owner |-> c, room |-> r, inputs |-> 0]),
                    !.roster = IF r \in DOMAIN st.roster
                               THEN [@ EXCEPT ![r] = @ \cup {ptr}]
                               ELSE Append(@, {ptr}),
                    !.client[c].player = ptr,
                    !.client[c].room = r]
    IN  Deliver(added, {c}, RoomInfoFrame(count, ptr))

\* handleJoin: the states it can leave.  FindRoom returns any Room with
\* space, or a new one, or nil when the server is full
handleJoin(st, c, data) ==
    LET open == {r \in DOMAIN st.roster : Cardinality(st.roster[r]) < MaxPlayersPerRoom}
    IN  IF DecodeJoin(data) # "ok" THEN {st}
        ELSE IF open # {} THEN {JoinRoom(st, c, r) : r \in open}
        ELSE IF Len(st.roster) >= MaxRoomsPerServer
        THEN {Deliver(st, {c}, ErrorFrame(ErrorCodeRoomFull))}
        ELSE {JoinRoom(st, c, Len(st.roster) + 1)}

\* handleInput, with Room.HandleInput counting the input on the Player
handleInput(st, c, data) ==
    LET ptr == st.client[c].player
    IN  IF ptr = 0 \/ st.client[c].room = 0 THEN st
        ELSE IF DecodeInput(data) # "ok" THEN st
        ELSE IF ptr \notin st.roster[st.client[c].room] THEN st
        ELSE [st EXCEPT !.part[ptr].inputs = @ + 1]

\* handlePing
handlePing(st, c, data) ==
    IF data.len >= 9 THEN Deliver(st, {c}, <<"Pong">>) ELSE st

\* Room.RemovePlayer called for Player ptr of Room r by a handler: the
\* delete, Connection.Close on the Player's connection, the PlayerLeave
RemovePlayerNow(st, r, ptr) ==
    IF ptr \notin st.roster[r] THEN st
    ELSE Deliver([st EXCEPT !.roster[r] = @ \ {ptr},
                            !.client[st.part[ptr].owner].done = "closed"],
                 Owners(st, r) \ {st.part[ptr].owner}, PlayerLeaveFrame(ptr))

\* handleLeave
handleLeave(st, c) ==
    IF st.client[c].room # 0 /\ st.client[c].player # 0
    THEN [RemovePlayerNow(st, st.client[c].room, st.client[c].player)
             EXCEPT !.client[c].player = 0, !.client[c].room = 0]
    ELSE st

\* handleMessage(data): the states it can leave
handleMessage(st, c, data) ==
    IF data.len = 0 THEN {st}
    ELSE CASE data.type = "JoinRoom" -> handleJoin(st, c, data)
           [] data.type = "Input" -> {handleInput(st, c, data)}
           [] data.type = "Ping" -> {handlePing(st, c, data)}
           [] data.type = "LeaveRoom" -> {handleLeave(st, c)}
           [] OTHER -> {st}

\* the messages read so far on connections 1..n
RECURSIVE MessagesRead(_)
MessagesRead(n) == IF n = 0 THEN 0 ELSE client[n].msgs + MessagesRead(n - 1)

\* readPump: one message read from the socket and handled
ReadMessage(c, data) ==
    /\ ~connPanic
    /\ pumps[<<c, "read">>].pc = "run"
    /\ MessagesRead(NumClients) < MaxMessages
    /\ \E out \in handleMessage(
                     [client |-> [client EXCEPT ![c].msgs = @ + 1],
                      part |-> part, roster |-> roster], c, data) :
           /\ client' = out.client
           /\ part' = out.part
           /\ roster' = out.roster
    /\ UNCHANGED <<pumps, connPanic, notConn>>

\* readPump or writePump returns (the socket failed, or done was seen
\* closed) and its deferred cleanup begins
PumpReturn(g) ==
    /\ ~connPanic
    /\ g[2] # "kick"
    /\ pumps[g].pc = "run"
    /\ pumps' = [pumps EXCEPT ![g].pc = "remove"]
    /\ UNCHANGED <<client, part, roster, connPanic, notConn>>

\* cleanup, `c.room.RemovePlayer(c.player.ID)` up to the delete; Close on the
\* Player's connection comes next when the Player was in the map
CleanupRemove(g) ==
    /\ ~connPanic
    /\ pumps[g].pc = "remove"
    /\ LET c == g[1]
           ptr == client[c].player
           r == client[c].room
       IN  IF ptr # 0 /\ r # 0 /\ ptr \in roster[r]
           THEN /\ roster' = [roster EXCEPT ![r] = @ \ {ptr}]
                /\ client' = Deliver([client |-> client], Owners([part |-> part,
                                 roster |-> roster], r) \ {c}, PlayerLeaveFrame(ptr)).client
                /\ pumps' = [pumps EXCEPT ![g].pc = "rmCheck"]
           ELSE /\ pumps' = [pumps EXCEPT ![g].pc = "check"]
                /\ UNCHANGED <<client, roster>>
    /\ UNCHANGED <<part, connPanic, notConn>>

\* kickPlayer on a Player of some Room: the Error frame, then RemovePlayer
\* up to the delete
KickPlayer(ptr) ==
    /\ ~connPanic
    /\ pumps[<<0, "kick">>].pc = "idle"
    /\ ptr \in roster[part[ptr].room]
    /\ LET r == part[ptr].room
           c == part[ptr].owner
           told == Deliver([client |-> client], {c}, ErrorFrame(ErrorCodeKicked))
       IN  /\ roster' = [roster EXCEPT ![r] = @ \ {ptr}]
           /\ client' = Deliver(told, Owners([part |-> part, roster |-> roster], r) \ {c},
                                PlayerLeaveFrame(ptr)).client
           /\ pumps' = [pumps EXCEPT ![<<0, "kick">>] = [pc |-> "rmCheck", c |-> c]]
    /\ UNCHANGED <<part, connPanic, notConn>>

\* where a goroutine goes on after a Close call: RemovePlayer's Close is
\* followed by cleanup's own, or ends the kick
AfterClose(g) ==
    IF pumps[g].pc \in {"rmCheck", "rmClose"}
    THEN (IF g[2] = "kick" THEN "idle" ELSE "check")
    ELSE "exited"

\* Close, the select: `case <-c.done: return nil` or default
CloseSelect(g) ==
    /\ ~connPanic
    /\ pumps[g].pc \in {"rmCheck", "check"}
    /\ pumps' = [pumps EXCEPT ![g].pc =
                    IF client[pumps[g].c].done = "closed" THEN AfterClose(g)
                    ELSE IF pumps[g].pc = "rmCheck" THEN "rmClose" ELSE "close"]
    /\ UNCHANGED <<client, part, roster, connPanic, notConn>>

\* Close, `close(c.done)`: closing a closed channel panics
CloseDone(g) ==
    /\ ~connPanic
    /\ pumps[g].pc \in {"rmClose", "close"}
    /\ IF client[pumps[g].c].done = "closed"
       THEN connPanic' = TRUE /\ UNCHANGED client
       ELSE client' = [client EXCEPT ![pumps[g].c].done = "closed"]
            /\ UNCHANGED connPanic
    /\ pumps' = [pumps EXCEPT ![g].pc = AfterClose(g)]
    /\ UNCHANGED <<part, roster, notConn>>

\* the messages of a client that follows the protocol
WellFormed ==
    {[type |-> "JoinRoom", len |-> 7, nameLen |-> 4],
     [type |-> "Input", len |-> 6, nameLen |-> 0],
     [type |-> "LeaveRoom", len |-> 1, nameLen |-> 0]}

\* the read pumps on arbitrary messages, and the scheduler's kicks
MsgNext ==
    \/ \E c \in Clients, data \in Messages : ReadMessage(c, data)
    \/ \E ptr \in DOMAIN part : KickPlayer(ptr)
    \/ CloseSelect(<<0, "kick">>)
    \/ CloseDone(<<0, "kick">>)

ConnNext ==
    \/ \E c \in Clients, data \in WellFormed : ReadMessage(c, data)
    \/ \E g \in PumpIds : PumpReturn(g)
    \/ \E g \in PumpIds : CleanupRemove(g)
    \/ \E ptr \in DOMAIN part : KickPlayer(ptr)
    \/ \E g \in PumpIds : CloseSelect(g)
    \/ \E g \in PumpIds : CloseDone(g)

(***************************************************************************)
(* Single calls of the functions checked on their own                      *)
(***************************************************************************)
\* no call
CalcIdle == calc = [kind |-> "none"]

\* the lateral offsets from the road centre, the positions along the road,
\* the speeds, angles and ratings a step is tried from, in 1/100
CalcOffsets == {0, 19500, -33900, 34000, -34000, 34001, 34100, -34100}
CalcYs == {0, 12300}
CalcSpeeds == {-28000, -1000, 0, 1500, 2500, 70000, 140000}
CalcAngles == {0, 1250, -2500}
CalcRatings == {0, 500}

\* KeyFlags of the client and the key bits UpdatePlayer tests: Up 1, Down 2,
\* Left 4, Right 8
KeyBits == 0..15

\* the arrow keys that Protocol.encodeInput packs into the key byte bits
KeysOf(bits) ==
    [ArrowUp |-> bits % 2 = 1, ArrowDown |-> (bits \div 2) % 2 = 1,
     ArrowLeft |-> (bits \div 4) % 2 = 1, ArrowRight |-> (bits \div 8) % 2 = 1]

\* a Player on the server with the given state and key byte
ServerPlayer(x, y, speed, angle, rating, bits) ==
    [NewPlayer(1) EXCEPT !.X = x, !.Y = y, !.Speed = speed, !.Angle = angle,
                         !.Rating = rating, !.CurrentInput.Keys = bits]

\* the client's local player with the given state
LocalPlayer(x, y, speed, angle, rating) ==
    [x |-> x, y |-> y, speed |-> speed, angle |-> angle, rating |-> rating,
     exploded |-> FALSE]

\* one step of the same state under the same keys on the server and on the
\* client, the first call of the behaviour
CalcIntegrate ==
    /\ CalcIdle
    /\ \E off \in CalcOffsets, y \in CalcYs, speed \in CalcSpeeds,
          angle \in CalcAngles, rating \in CalcRatings, bits \in KeyBits,
          dt \in StepLengths :
          calc' = [kind |-> "integrate", off |-> off, bits |-> bits, dt |-> dt,
                   p |-> ServerPlayer(GetRoadCurve(y) + off, y, speed, angle, rating, bits),
                   server |-> UpdatePlayer(
                                ServerPlayer(GetRoadCurve(y) + off, y, speed, angle, rating, bits),
                                dt),
                   client |-> ClientUpdate(
                                LocalPlayer(GetRoadCurve(y) + off, y, speed, angle, rating),
                                KeysOf(bits), dt)]
    /\ UNCHANGED notCalc

\* the gaps between two Players along each axis, and their speeds, in 1/100
CalcGaps == {0, 1, 1979, 1980, 2000, -2000, 2799, 2800, -2800, 3000}
CalcPairSpeeds == {0, 5000, 30000}

\* a Player at (x, y) with the given speed
PlayerAt(id, x, y, speed) ==
    [NewPlayer(id) EXCEPT !.X = x, !.Y = y, !.Speed = speed]

\* one call of CheckCollision on a candidate pair
CalcCollide ==
    /\ CalcIdle
    /\ \E dx \in CalcGaps, dy \in CalcGaps, s1 \in CalcPairSpeeds,
          s2 \in CalcPairSpeeds, dt \in StepLengths :
          calc' = [kind |-> "collide", dt |-> dt,
                   a |-> PlayerAt(1, dx, dy, s1), b |-> PlayerAt(2, 0, 0, s2),
                   out |-> CheckCollisionPair(PlayerAt(1, dx, dy, s1),
                                              PlayerAt(2, 0, 0, s2), dt)]
    /\ UNCHANGED notCalc

\* the displacements from the baseline, around the 15400 and 2618 that
\* ValidatePlayerMovement allows for the two step lengths, the baselines along
\* the road, the speeds and the violation counts a verdict is tried on
CalcMoves == {0, 2618, 2619, 15400, 15401, -15401, 30000}
CalcBaseYs == {0, 12300}
CalcCheckSpeeds == {0, 140000, 160000}
CalcViolations == 0..(MaxViolations + 1)

\* a Player that moved by (dx, dy) from its baseline on the road at baseY
MovedPlayer(dx, dy, baseY, speed, violations) ==
    [NewPlayer(1) EXCEPT !.X = GetRoadCurve(baseY) + dx, !.Y = baseY + dy,
                         !.LastValidX = GetRoadCurve(baseY), !.LastValidY = baseY,
                         !.Speed = speed, !.Violations = violations]

\* one displacement check and the application of its verdict (room.go
\* 272-278)
CalcVerdict ==
    /\ CalcIdle
    /\ \E dx \in CalcMoves, dy \in CalcMoves, baseY \in CalcBaseYs,
          speed \in CalcCheckSpeeds, violations \in CalcViolations, dt \in StepLengths :
          LET p == MovedPlayer(dx, dy, baseY, speed, violations)
              v == ValidatePlayerMovement(p, dt)
          IN  calc' = [kind |-> "verdict", dt |-> dt, p |-> p, result |-> v.result,
                       checked |-> v.player,
                       after |-> ApplyValidationResult(v.player, v.result)]
    /\ UNCHANGED notCalc

\* the places of the first Player, on both sides of the cell borders at 0 and
\* at +-100, and the gaps to the second, in 1/100 unit
GridXs == {-10100, -10000, -9950, -50, 0, 9990, 10000}
GridYs == {-50, 9990}
GridGaps == {0, 20, 2700, 2800, 10000, 20000, -2700}
\* where the third Player stands, relative to the first
GridThird == {<<2000, 0>>, <<-12000, 12000>>}

\* the orders in which the snapshot can list the three Players
GridSnaps == Orderings(1..3)

\* three Players, the second at the gap (gx, gy) from the first
GridPlayers(x, y, gx, gy, third, s1, s2) ==
    <<PlayerAt(1, x, y, s1), PlayerAt(2, x + gx, y + gy, s2),
      PlayerAt(3, x + third[1], y + third[2], 0)>>

\* SpatialGrid.Update(snapshot) and GetPotentialCollisions (room.go 261-264)
CalcGrid ==
    /\ CalcIdle
    /\ \E x \in GridXs, y \in GridYs, gx \in GridGaps, gy \in GridGaps,
          third \in GridThird, snap \in GridSnaps :
          \E h \in {GridPlayers(x, y, gx, gy, third, 0, 0)} :
              calc' = [kind |-> "grid", h |-> h, snap |-> snap,
                       cells |-> [q \in 1..3 |-> getCellKey(h[q].X, h[q].Y)],
                       pairs |-> PotentialCollisions(h, snap)]
    /\ UNCHANGED notCalc

\* the collision phase of one step (room.go 261-268) run twice on the same
\* Players: under two enumerations of the Player map and of the grid cells
CalcResolve ==
    /\ CalcIdle
    /\ \E gx \in {20, 2700}, third \in GridThird, s1 \in {0, 30000},
          dt \in StepLengths, snapB \in GridSnaps :
          \E h \in {GridPlayers(-50, 0, gx, 0, third, s1, 0)} :
              \E pairsA \in Orderings(PotentialCollisions(h, <<1, 2, 3>>)),
                 pairsB \in Orderings(PotentialCollisions(h, snapB)) :
                 calc' = [kind |-> "resolve", h |-> h, dt |-> dt,
                          pairsA |-> pairsA, pairsB |-> pairsB,
                          outA |-> ResolveCollisions(h, pairsA, dt),
                          outB |-> ResolveCollisions(h, pairsB, dt)]
    /\ UNCHANGED notCalc

(***************************************************************************)
(* The state update on the wire  (network Protocol of the server, client   *)
(* Protocol.decodeStateUpdate).  A frame is the record of its fields, each *)
(* held as the unsigned value of its bytes; the four bytes of y are held   *)
(* as the int32 they carry.                                                *)
(***************************************************************************)
\* Go's float64 -> integer conversion: the fraction is dropped
Trunc(num, den) == Quot(num, den)

\* the two's-complement bytes of a signed value, read as unsigned, and back
ToUint(v, width) == v % width
ToInt(u, width) == IF u >= width \div 2 THEN u - width ELSE u

Width8 == 256
Width16 == 65536
RatingMax == 16777215
MaxFramePlayers == 255
HeaderSize == 4
RecordSize == 16

\* ConvertToPlayerStateData applied to a Player's fields: X and Speed in
\* 1/10, Angle in 1/127 of 25 degrees, Y and Rating in whole units
ConvertToPlayerStateData(p) ==
    [ID |-> p.ID,
     X |-> Trunc(p.X, 10),
     Y |-> Trunc(p.Y, 100),
     Speed |-> Trunc(p.Speed, 10),
     Angle |-> Trunc(Max2(-127 * 2500, Min2(127 * 2500, p.Angle * 127)), 2500),
     Rating |-> Trunc(p.Rating, 100),
     Flags |-> IF p.Exploded THEN 1 ELSE 0]

\* the record with the three rating bytes taken from the rating as it is
encodePlayerStateWrap(player) ==
    [id |-> ToUint(player.ID, Width16),
     x |-> ToUint(player.X, Width16),
     y |-> player.Y,
     speed |-> ToUint(player.Speed, Width16),
     angle |-> ToUint(player.Angle, Width8),
     rating |-> player.Rating % (RatingMax + 1),
     flags |-> player.Flags]

\* Protocol.encodePlayerState: the 16 bytes of one record
encodePlayerState(player) ==
    [id |-> ToUint(player.ID, Width16),
     x |-> ToUint(player.X, Width16),
     y |-> player.Y,
     speed |-> ToUint(player.Speed, Width16),
     angle |-> ToUint(player.Angle, Width8),
     rating |-> Min2(player.Rating, RatingMax),
     flags |-> player.Flags]

\* Protocol.EncodeStateUpdate(tick, players)
EncodeStateUpdate(tick, data) ==
    [tick |-> ToUint(tick, Width16),
     count |-> Min2(Len(data), MaxFramePlayers),
     records |-> [i \in 1..Min2(Len(data), MaxFramePlayers) |-> encodePlayerState(data[i])]]

\* the client's Protocol.decodeStateUpdate: x and speed in 1/100, angle as
\* the numerator over 127 of a value in 1/100 degree
decodeStateUpdate(frame) ==
    [tick |-> frame.tick,
     players |-> [i \in 1..frame.count |->
                    [id |-> frame.records[i].id,
                     x |-> ToInt(frame.records[i].x, Width16) * 10,
                     y |-> frame.records[i].y * 100,
                     speed |-> ToInt(frame.records[i].speed, Width16) * 10,
                     angle127 |-> ToInt(frame.records[i].angle, Width8) * 2500,
                     rating |-> frame.records[i].rating * 100,
                     flags |-> frame.records[i].flags]]]

\* the ids, positions, speeds and angles put on the wire, in 1/100
WireIds == {1, 65535}
WireXs == {0, 105, 109, -109}
WireSpeeds == {1404, 140000}
WireAngles == {1234, 2500, -2500}

\* the most Players in a state update that is tried
MaxWirePlayers == 2

\* a Player as broadcastState reads it
WirePlayer(id, x, speed, angle) ==
    [NewPlayer(id) EXCEPT !.X = x, !.Speed = speed, !.Angle = angle]

WirePlayerSet ==
    {WirePlayer(id, x, speed, angle) :
        id \in WireIds, x \in WireXs, speed \in WireSpeeds, angle \in WireAngles}

\* broadcastState's conversion of each Player of the snapshot
ConvertAll(ps) == [i \in DOMAIN ps |-> ConvertToPlayerStateData(ps[i])]

\* one state update encoded by the server and decoded by the client
CalcWire ==
    /\ CalcIdle
    /\ \E n \in 0..MaxWirePlayers : \E ps \in [1..n -> WirePlayerSet] :
          calc' = [kind |-> "wire", sent |-> ps,
                   frame |-> EncodeStateUpdate(0, ConvertAll(ps)),
                   got |-> decodeStateUpdate(EncodeStateUpdate(0, ConvertAll(ps)))]
    /\ UNCHANGED notCalc

\* the length in bytes of the buffer EncodeStateUpdate makes and returns
FrameSize(data) == HeaderSize + Min2(Len(data), MaxFramePlayers) * RecordSize

\* the numbers of Players and the ratings, in 1/100, a long state update is
\* tried with
FrameCounts == {0, 1, 254, 255, 256, 300}
FrameRatings == {0, 1677721500, 1677721600, 2000000000}

\* one state update of n Players with the same rating encoded by the server
CalcFrame ==
    /\ CalcIdle
    /\ \E n \in FrameCounts, rating \in FrameRatings :
          \E data \in {[i \in 1..n |->
                           ConvertToPlayerStateData([NewPlayer(i) EXCEPT !.Rating = rating])]} :
              calc' = [kind |-> "frame", n |-> n, rating |-> rating,
                       size |-> FrameSize(data),
                       frame |-> EncodeStateUpdate(0, data)]
    /\ UNCHANGED notCalc

\* the values of the steering and throttle bytes of an Input message
InputBytes == {0, 1, 64, 127, 128, 129, 255}

\* Protocol.DecodeInput's fields of a 6-byte Input message with the given
\* steering and throttle bytes: int8(data[3]), int8(data[4])
DecodeInputFields(steering, throttle) ==
    [Sequence |-> 1, Keys |-> 0,
     Steering |-> ToInt(steering, Width8), Throttle |-> ToInt(throttle, Width8),
     Flags |-> 0]

\* one Input message decoded and stored by HandleInput as the Player's
\* control state, steering and throttle in 1/127
CalcInput ==
    /\ CalcIdle
    /\ \E steering \in InputBytes, throttle \in InputBytes :
          calc' = [kind |-> "input", steering |-> steering, throttle |-> throttle,
                   stored |-> ApplyInput(NewPlayer(1),
                                         DecodeInputFields(steering, throttle),
                                         0).CurrentInput]
    /\ UNCHANGED notCalc

CalcNext ==
    \/ CalcInput
    \/ CalcFrame
    \/ CalcIntegrate
    \/ CalcCollide
    \/ CalcWire
    \/ CalcVerdict
    \/ CalcGrid
    \/ CalcResolve

(***************************************************************************)
(* Specifications                                                          *)
(***************************************************************************)
\* a Room as NewRoom returns it
Init ==
    LifeInit /\ RoomInit /\ PhysInit /\ MMInit /\ LockInit /\ SendInit /\ CalcIdle
             /\ ConnInit

\* one Room's Start and Stop calls and its scheduler loops
SpecLife == Init /\ [][LifeNext]_vars

\* one started Room: joins, leaves and the scheduler's steps, interleaved
SpecRoom == Init /\ [][RoomNext]_vars

\* one started Room: joins, HandleInput calls and the scheduler's steps, interleaved
SpecInput == Init /\ [][InputNext]_vars

\* one started Room: joins, HandleInput calls and whole simulation steps
SpecPhys == Init /\ [][PhysNext]_vars

\* a Room late in its life: the id counter one or two joins before the end
\* of its range, every earlier participant gone; the last id assigned is on
\* record
LateRoomInit ==
    /\ players = <<>>
    /\ \E left \in 1..2 :
           /\ nextPlayerID = IdModulus - left
           /\ assignedIds = <<IdModulus - left - 1>>
    /\ heap = <<>>
    /\ connLog = <<>>
    /\ ghost = <<>>
    /\ addCalls = 0
    /\ lastAdd = "none"
    /\ sched = [pc |-> "idle", snap |-> <<>>, idx |-> 0]
    /\ inputs = [t \in 1..NumInputThreads |-> [pc |-> "idle", ptr |-> 0, msg |-> NoInput]]
    /\ inputCalls = 0
    /\ removers = [t \in 1..NumRemovers |-> [pc |-> "idle", id |-> 0, ptr |-> 0]]
    /\ removeCalls = 0

\* a Room late in its life that its first participant, id 1, never left: the
\* id counter has run through its range and stands at 0 or 1; the record of
\* the ids assigned and the log of the participant start here
StayerRoomInit ==
    /\ players = [i \in {1} |-> 1]
    /\ nextPlayerID \in 0..1
    /\ assignedIds = <<>>
    /\ heap = <<NewPlayer(1)>>
    /\ connLog = <<<<>>>>
    /\ ghost = <<NewGhost>>
    /\ addCalls = 0
    /\ lastAdd = "none"
    /\ sched = [pc |-> "idle", snap |-> <<>>, idx |-> 0]
    /\ inputs = [t \in 1..NumInputThreads |-> [pc |-> "idle", ptr |-> 0, msg |-> NoInput]]
    /\ inputCalls = 0
    /\ removers = [t \in 1..NumRemovers |-> [pc |-> "idle", id |-> 0, ptr |-> 0]]
    /\ removeCalls = 0

IdsInit ==
    LifeInit /\ (RoomInit \/ LateRoomInit \/ StayerRoomInit) /\ PhysInit /\ MMInit
             /\ LockInit /\ SendInit /\ CalcIdle /\ ConnInit

IdsNext ==
    \/ AddPlayer
    \/ \E t \in DOMAIN removers, id \in IdChoices : RemoveLock(t, id)
    \/ \E t \in DOMAIN removers : RemoveClose(t)
    \/ \E t \in DOMAIN removers : RemoveBroadcast(t)

\* one Room, new or late in its life: joins and leaves
SpecIds == IdsInit /\ [][IdsNext]_vars

\* the Matchmaker: joins, leaves and CleanupEmptyRooms calls, interleaved
SpecMM == Init /\ [][MMNext]_vars

\* the locks of one Matchmaker, one Room and two Players under the scheduler
\* and the calling threads
SpecLocks == Init /\ [][LockNext]_vars

\* the same threads with their writes, reads, Sends and Closes
SpecOps == Init /\ [][OpsNext]_vars

\* the connections of one Room: fan-outs, write pumps and leaves
SpecSend == Init /\ [][SendNext]_vars

\* a Room with one participant over some seconds of play
LongInit ==
    LifeInit /\ StayerRoomInit /\ PhysInit /\ MMInit /\ LockInit
             /\ SendInit /\ CalcIdle /\ ConnInit

SpecLong == LongInit /\ [][LongNext]_vars

\* the connections: messages, pumps, cleanup and kicks
SpecConn == Init /\ [][ConnNext]_vars

\* the read pumps fed arbitrary messages
SpecMsg == Init /\ [][MsgNext]_vars

\* one call of a function on arguments drawn from the sets above
SpecCalc == Init /\ [][CalcNext]_vars

\* one Room: joins, leaves and HandleInput calls, the scheduler at rest
SpecCalls == Init /\ [][CallsNext]_vars

(***************************************************************************)
(* Claims about membership, kicks and input                                *)
(***************************************************************************)
\* C3: AddPlayer on a Room that holds MaxPlayersPerRoom participants returns
\* the room-full error and leaves the map, the id counter and every
\* connection untouched; the number of participants never exceeds the cap
C3_FullRoomRejects ==
    [][/\ Cardinality(DOMAIN players') <= MaxPlayersPerRoom
       /\ (addCalls' # addCalls /\ Cardinality(DOMAIN players) >= MaxPlayersPerRoom)
             => /\ lastAdd' = "ErrRoomFull"
                /\ UNCHANGED <<players, nextPlayerID, connLog>>]_vars

\* a join was refused while the Room was full
C3_Witness ==
    /\ lastAdd = "ErrRoomFull"
    /\ Cardinality(DOMAIN players) = MaxPlayersPerRoom
    /\ removeCalls > 0

\* the events of one connection's log
Events(log) == {log[i] : i \in DOMAIN log}

\* in log, a kicked Error frame exists and no deletion or close comes before
\* the first one
ErrorComesFirst(log) ==
    \E i \in DOMAIN log :
        /\ log[i] = ErrorFrame(ErrorCodeKicked)
        /\ \A j \in 1..(i - 1) : log[j] \notin {<<"Deleted">>, <<"Close">>}

\* C9 as stated: every participant that kickPlayer is called for has its
\* Error frame handed over before it is deleted from the map and before its
\* connection is closed
C9_ErrorBeforeRemoval ==
    \A ptr \in DOMAIN ghost : ghost[ptr].kicks > 0 => ErrorComesFirst(connLog[ptr])

\* C9 amended: a participant that is still in the map when kickPlayer removes
\* it has its Error frame handed over before the deletion and the close; when
\* the kick returns it is absent from the map and every participant then in
\* the map has been sent a PlayerLeave carrying its id
C9_KickOfMember ==
    [][/\ \A ptr \in DOMAIN ghost' :
              ghost'[ptr].deletedBy = "kick" => ErrorComesFirst(connLog'[ptr])
       /\ (sched.pc = "kickBroadcast" /\ sched'.pc # "kickBroadcast")
             => LET ptr == sched.snap[sched.idx]
                IN  /\ ptr \notin {players'[i] : i \in DOMAIN players'}
                    /\ \A m \in {players'[i] : i \in DOMAIN players'} :
                           PlayerLeaveFrame(heap[ptr].ID) \in Events(connLog'[m])]_vars

\* a member was kicked and another member was told that it left
C9_Witness ==
    \E ptr \in DOMAIN ghost :
        /\ ghost[ptr].deletedBy = "kick"
        /\ sched.pc # "kickBroadcast"
        /\ \E m \in Members : PlayerLeaveFrame(heap[ptr].ID) \in Events(connLog[m])

\* C10 as stated: between two resets of a participant's input counter at most
\* MaxInputsPerTick HandleInput calls store their control state
C10_AtMostThreeStores ==
    \A ptr \in DOMAIN ghost : ghost[ptr].applied <= MaxInputsPerTick

\* C10 amended: between two resets at most MaxInputsPerTick calls pass the
\* rate check, and a call that passed it before a reset may store after it,
\* so at most MaxInputsPerTick plus one call per calling thread store; a call
\* the rate check rejects changes no control state, no last-input time and
\* sends nothing
C10_AdmittedPerInterval ==
    [][/\ \A ptr \in DOMAIN ghost' :
              /\ ghost'[ptr].admitted <= MaxInputsPerTick
              /\ ghost'[ptr].applied <= MaxInputsPerTick + NumInputThreads
       /\ \A t \in DOMAIN inputs :
              (inputs[t].pc = "rate" /\ inputs'[t].pc = "idle")
                 => /\ connLog' = connLog
                    /\ \A q \in DOMAIN heap :
                           /\ heap'[q].CurrentInput = heap[q].CurrentInput
                           /\ heap'[q].LastInputTime = heap[q].LastInputTime]_vars

\* a participant stored MaxInputsPerTick inputs and had a further one dropped
C10_Witness ==
    \E ptr \in DOMAIN ghost :
        /\ ghost[ptr].applied = MaxInputsPerTick
        /\ ghost[ptr].rejected > 0

\* the Error frames with the kicked code that a connection was handed
KickedFrames(log) == {i \in DOMAIN log : log[i] = ErrorFrame(ErrorCodeKicked)}

\* C1: once a simulation step has ended, a participant whose displacement
\* from its last validated position exceeded maxSpeed*dt*1.1 in more than
\* MaxViolations consecutive steps is out of the Room, and its connection was
\* handed exactly one Error frame with the kicked code
C1_KickedPastFiveOffending ==
    sched.pc = "idle" =>
        \A ptr \in DOMAIN ghost :
            ghost[ptr].streak > MaxViolations =>
                /\ ptr \notin Members
                /\ Cardinality(KickedFrames(connLog[ptr])) = 1

\* C4: every id AddPlayer assigned is non-zero and greater than every id
\* assigned before it in the Room
C4_IdsStrictlyIncreasing ==
    \A i \in DOMAIN assignedIds :
        /\ assignedIds[i] # 0
        /\ \A j \in 1..(i - 1) : assignedIds[j] < assignedIds[i]

(***************************************************************************)
(* Claims about the simulation step                                        *)
(***************************************************************************)
\* C8: after the validation pass of every simulation step every participant
\* of the Room has |speed| <= maxSpeed * 1.1, whatever the inputs, the
\* collisions and the step lengths were
C8_SpeedWithinTolerance ==
    \A ptr \in Members : Abs(heap[ptr].Speed) * 10 <= MaxSpeed * SpeedTolerance

\* after two steps or more, a participant that braked sits at the reverse
\* speed limit and another was slowed down by a collision while it moved
C8_Witness ==
    /\ tickCount >= 2
    /\ \E ptr \in Members : heap[ptr].Speed = -((MaxSpeed * 2) \div 10)
    /\ \E ptr \in Members : heap[ptr].Speed > 0 /\ heap[ptr].Speed % 1000 # 0
    /\ C8_SpeedWithinTolerance

(***************************************************************************)
(* Claims about the Matchmaker                                             *)
(***************************************************************************)
\* every registered Room is at its participant cap
AllRoomsFull == \A r \in mm.rooms : mm.objs[r].count >= MaxPlayersPerRoom

\* C13: a FindRoom call made with MaxRoomsPerServer Rooms registered, each at
\* its cap, returns no Room and leaves the map and every Room as they are
C13_ServerFullCreatesNothing ==
    [][(/\ mmCalls'.joins # mmCalls.joins
        /\ Cardinality(mm.rooms) = MaxRoomsPerServer
        /\ AllRoomsFull)
           => /\ mm' = mm
              /\ \E t \in Joiners :
                     /\ joiners[t].pc = "idle"
                     /\ joiners' = [joiners EXCEPT ![t].last = "ServerFull"]]_vars

\* a handleJoin that was told the server is full, with the Rooms still so
C13_Witness ==
    /\ \E t \in Joiners : joiners[t].last = "ServerFull"
    /\ Cardinality(mm.rooms) = MaxRoomsPerServer
    /\ AllRoomsFull

\* how often an event stands in a log
Count(log, ev) == Cardinality({i \in DOMAIN log : log[i] = ev})

\* C19: an AddPlayer call that succeeds sends the joiner one RoomInfo, with
\* its id and the number of participants including it, and nothing else, and
\* sends every participant that was in the Room one PlayerJoin with that id
C19_JoinFrames ==
    [][(addCalls' = addCalls + 1 /\ lastAdd' = "ok") =>
          /\ connLog'[Len(heap')] =
                 <<RoomInfoFrame(Cardinality(Members) + 1, heap'[Len(heap')].ID)>>
          /\ \A q \in Members :
                 connLog'[q] = Append(connLog[q], PlayerJoinFrame(heap'[Len(heap')].ID))]_vars

\* the Player is out of the map and no RemovePlayer call is at work on it
LeftRoom(q) ==
    /\ q \notin Members
    /\ \A t \in DOMAIN removers : removers[t].pc # "idle" => removers[t].ptr # q
    /\ sched.pc \in {"kickClose", "kickBroadcast"} => sched.snap[sched.idx] # q

\* C20: a participant that has left the Room was deleted once and closed once
\* by the Room, and every member that was there and still is was sent one
\* PlayerLeave with its id; nobody is deleted, closed or announced twice
C20_LeavesOnce ==
    \A q \in DOMAIN heap :
        /\ Count(connLog[q], <<"Deleted">>) <= 1
        /\ Count(connLog[q], <<"Close">>) <= 1
        /\ \A r \in DOMAIN heap \ {q} :
               Count(connLog[r], PlayerLeaveFrame(heap[q].ID)) <= 1
        /\ LeftRoom(q) =>
               /\ Count(connLog[q], <<"Deleted">>) = 1
               /\ Count(connLog[q], <<"Close">>) = 1
               /\ \A r \in ghost[q].remaining \cap Members :
                      Count(connLog[r], PlayerLeaveFrame(heap[q].ID)) = 1

\* C18: HandleInput and RemovePlayer called with an id the map does not hold
\* change nothing of the Room or of a Player, send nothing and close nothing
C18_UnknownIdIsNoOp ==
    [][\A id \in IdChoices \ DOMAIN players :
          (\/ \E t \in DOMAIN removers : RemoveLock(t, id)
           \/ \E t \in DOMAIN inputs, msg \in InputMessages : InputLookup(t, id, msg))
             => UNCHANGED <<players, nextPlayerID, heap, connLog, assignedIds,
                            sched, inputs, removers>>]_vars

\* a Room with a member in which HandleInput and RemovePlayer were both
\* called and have returned, and no Player was deleted, closed, sent a leave
\* or given an input
C18_Witness ==
    /\ removeCalls > 0 /\ inputCalls > 0
    /\ DOMAIN players # {}
    /\ \A t \in DOMAIN removers : removers[t].pc = "idle"
    /\ \A t \in DOMAIN inputs : inputs[t].pc = "idle"
    /\ \A q \in DOMAIN heap :
          /\ heap[q] = NewPlayer(heap[q].ID)
          /\ \A i \in DOMAIN connLog[q] :
                connLog[q][i][1] \in {"RoomInfo", "PlayerJoin"}

(***************************************************************************)
(* Claims about single calls                                               *)
(***************************************************************************)
\* the client's player holds what the server's Player holds
SameState(sp, cp) ==
    /\ sp.X = cp.x /\ sp.Y = cp.y /\ sp.Speed = cp.speed
    /\ sp.Angle = cp.angle /\ sp.Rating = cp.rating /\ sp.Exploded = cp.exploded

\* SameState but for the rating
SameMotion(sp, cp) ==
    /\ sp.X = cp.x /\ sp.Y = cp.y /\ sp.Speed = cp.speed
    /\ sp.Angle = cp.angle /\ sp.Exploded = cp.exploded

\* C14: from the same state, keys and dt, UpdatePlayer and the client's
\* Physics.update leave the same x, y, speed, angle, rating and exploded flag
C14_ClientMirrorsServer ==
    calc.kind = "integrate" => SameState(calc.server, calc.client)

\* the step on which the two integrators part: they agree on everything but
\* the rating
C14_RatingParts ==
    calc.kind = "integrate" =>
        (SameMotion(calc.server, calc.client)
         /\ (calc.server.Rating # calc.client.rating => ~calc.server.Exploded))

\* C16: a step explodes a Player that is not exploded exactly when its
\* lateral distance from the centreline less half the track width (200) is,
\* as the step begins, above 140
C16_ExplodesAbove140 ==
    calc.kind = "integrate" =>
        (calc.server.Exploded <=> Abs(calc.off) - 20000 > 14000)

\* a step begun at an excess of exactly 140 that did not explode the Player
C16_Witness ==
    /\ calc.kind = "integrate"
    /\ Abs(calc.p.X - GetRoadCurve(calc.p.Y)) - 20000 = 14000
    /\ ~calc.server.Exploded

\* a step begun at an excess of 141 that exploded the Player
C16_WitnessAbove ==
    /\ calc.kind = "integrate"
    /\ Abs(calc.p.X - GetRoadCurve(calc.p.Y)) - 20000 = 14100
    /\ calc.server.Exploded /\ calc.server.Rating = 0

\* C15: a state update of up to 255 Players, encoded and decoded, gives the
\* same ids in the same order, each x and speed within 0.05 of the Player's
\* and each angle within 25/127 of a degree
C15_RoundTripWithinHalfStep ==
    calc.kind = "wire" =>
        /\ Len(calc.got.players) = Len(calc.sent)
        /\ \A i \in DOMAIN calc.sent :
               /\ calc.got.players[i].id = calc.sent[i].ID
               /\ Abs(calc.got.players[i].x - calc.sent[i].X) <= 5
               /\ Abs(calc.got.players[i].speed - calc.sent[i].Speed) <= 5
               /\ Abs(calc.got.players[i].angle127 - calc.sent[i].Angle * 127) <= 2500

\* the round trip with the bound on x and speed that truncation gives:
\* under 0.1
C15_RoundTripWithinStep ==
    calc.kind = "wire" =>
        /\ Len(calc.got.players) = Len(calc.sent)
        /\ \A i \in DOMAIN calc.sent :
               /\ calc.got.players[i].id = calc.sent[i].ID
               /\ Abs(calc.got.players[i].x - calc.sent[i].X) < 10
               /\ Abs(calc.got.players[i].speed - calc.sent[i].Speed) < 10
               /\ Abs(calc.got.players[i].angle127 - calc.sent[i].Angle * 127) <= 2500

\* the squared distance between two Players
Dist2(a, b) == (a.X - b.X) * (a.X - b.X) + (a.Y - b.Y) * (a.Y - b.Y)

\* C17: CheckCollision on a pair (a, b) changes no field of b, and none of a
\* when their distance is zero or at least the collision radius, 28
C17_SecondUntouched ==
    calc.kind = "collide" =>
        /\ calc.out[2] = calc.b
        /\ (Dist2(calc.a, calc.b) = 0 \/ Dist2(calc.a, calc.b) >= 2800 * 2800)
               => calc.out[1] = calc.a

\* a pair closer than the radius, the first faster by more than the
\* threshold: the first was pushed and slowed, the second is as it was
C17_Witness ==
    /\ calc.kind = "collide"
    /\ calc.a.Speed - calc.b.Speed > SpeedDiffThreshold
    /\ calc.out[1].X # calc.a.X /\ calc.out[1].Speed < calc.a.Speed
    /\ calc.out[2] = calc.b

\* C22: every Room that holds a participant is registered in the
\* Matchmaker's map and has its scheduler running
C22_OccupiedRoomIsLive ==
    \A r \in DOMAIN mm.objs :
        mm.objs[r].count > 0 => (r \in mm.rooms /\ mm.objs[r].running)

\* C25: handleJoin answers with a room-full Error (FindRoom returned no
\* Room, or AddPlayer returned ErrRoomFull) only when every registered Room
\* is at its cap and MaxRoomsPerServer Rooms are registered
C25_RejectedOnlyWhenFull ==
    [][\A t \in Joiners :
           (joiners'[t] # joiners[t] /\ joiners'[t].last \in {"ServerFull", "ErrRoomFull"})
               => (AllRoomsFull /\ Cardinality(mm.rooms) >= MaxRoomsPerServer)]_vars

\* C5: a Room that CleanupEmptyRooms stops, and a Room it deletes from the
\* map, holds no participant at the moment of the Stop or of the delete
C5_CleanupSparesOccupied ==
    [][\A r \in DOMAIN mm.objs :
           (\/ mm.objs[r].running /\ ~mm'.objs[r].running
            \/ r \in mm.rooms /\ r \notin mm'.rooms)
               => mm.objs[r].count = 0]_vars

(***************************************************************************)
(* Claims about the locks                                                  *)
(***************************************************************************)
\* the thread is inside a Lock or RLock call that cannot return now
Blocked(t) ==
    /\ thr[t].prog # <<>>
    /\ LET op == Head(thr[t].prog)
       IN  \/ op[1] = "Lock" /\ ~CanLock(op[2])
           \/ op[1] = "RLock" /\ ~CanRLock(op[2])

\* the threads a blocked thread waits for: the holders of the lock it wants
\* and, for a reader, the writers blocked ahead of it
WaitsFor(t) ==
    LET op == Head(thr[t].prog)
        l == op[2]
        writer == IF lk[l].w = -1 THEN {} ELSE {lk[l].w}
    IN  IF op[1] = "Lock" THEN writer \cup lk[l].rs
        ELSE writer \cup lk[l].pend

Holds(t, l) == lk[l].w = t \/ t \in lk[l].rs

\* C11: no set of threads is blocked with each of them waiting for a lock
\* that another thread of the set holds (or is queued for): no cyclic wait
C11_NoCyclicWait ==
    \A S \in SUBSET LockThreads :
        S # {} => \E t \in S : ~Blocked(t) \/ WaitsFor(t) \cap S = {}

\* a chain of waits that is no cycle: a caller holds Matchmaker.mu and waits
\* for Room.mu, whose holder waits for a Player's lock that the scheduler holds
C11_Witness ==
    \E t, u \in LockThreads \ {0} :
        /\ Holds(t, "m") /\ Blocked(t) /\ u \in WaitsFor(t)
        /\ Holds(u, "r") /\ Blocked(u) /\ 0 \in WaitsFor(u)
        /\ ~Blocked(0)

(***************************************************************************)
(* Claims about the connections                                            *)
(***************************************************************************)
\* C12: inside a fan-out the Send to the next member can always return, full
\* buffer or not; a Send to a member whose buffer is full leaves that buffer
\* as it is, a Send to a member whose buffer has room appends the frame to
\* it, and neither touches another connection
C12_FullBufferDropsForOne ==
    /\ [](caster.pc = "send" => \A c \in caster.todo : ENABLED CastSend(c))
    /\ [][\A c \in Conns :
              (c \in caster.todo /\ c \notin caster'.todo) =>
                  /\ \A d \in Conns \ {c} : conns'[d] = conns[d]
                  /\ IF Len(conns[c].sendChan) >= SendBufferSize
                     THEN conns'[c] = conns[c]
                     ELSE conns'[c].sendChan = Append(conns[c].sendChan, caster.frame)]_vars

\* a fan-out that ended after it dropped the frame for one member and queued
\* it for another
C12_Witness ==
    /\ caster.pc = "idle"
    /\ caster.dropped # {}
    /\ caster.queued # {}

\* C27: when a connection's write pump has exited, every frame its buffer
\* accepted has been written to the socket: none is left in the buffer
C27_QueuedFramesAreWritten ==
    \A c \in Conns : conns[c].pump = "exited" => conns[c].sendChan = <<>>

\* a message the server has to drop: empty, of an unknown type, or shorter
\* than the layout of its type
Malformed(data) ==
    \/ data.len = 0
    \/ data.type \notin {"JoinRoom", "Input", "Ping", "LeaveRoom"}
    \/ data.type = "Input" /\ data.len < 6
    \/ data.type = "JoinRoom" /\ data.len < 3 + data.nameLen
    \/ data.type = "Ping" /\ data.len < 9

\* C21: handling an empty message, one of unknown type or one shorter than
\* its layout changes no Room, no Player and no connection's player or room,
\* closes nothing and hands no frame to any connection
C21_MalformedIsDropped ==
    [][\A c \in Clients, data \in Messages :
           (Malformed(data) /\ ReadMessage(c, data))
               => /\ part' = part
                  /\ roster' = roster
                  /\ \A d \in Clients :
                         /\ client'[d].player = client[d].player
                         /\ client'[d].room = client[d].room
                         /\ client'[d].sent = client[d].sent
                         /\ client'[d].done = client[d].done]_vars

\* a connection that joined and had one more message dropped: it is still in
\* its Room with nothing but the RoomInfo sent to it
C21_Witness ==
    \E c \in Clients :
        /\ client[c].msgs = 2
        /\ client[c].player # 0
        /\ client[c].player \in roster[client[c].room]
        /\ part[client[c].player].inputs = 0
        /\ client[c].sent = <<RoomInfoFrame(1, client[c].player)>>
        /\ client[c].done = "open"

\* C24: a connection owns at most one Player that is in a Room, and none once
\* its read pump's cleanup has finished
C24_OneParticipantPerConnection ==
    \A c \in Clients :
        LET owned == {q \in DOMAIN part : part[q].owner = c /\ q \in roster[part[q].room]}
        IN  /\ Cardinality(owned) <= 1
            /\ pumps[<<c, "read">>].pc = "exited" => owned = {}

\* C28: a Player in the Room is not left exploded once the respawn delay
\* has passed since its explosion
C28_RespawnsAfterDelay ==
    \A q \in Members :
        heap[q].Exploded => Clock - ghost[q].explodedAt <= RespawnDelay

\* C29: over a simulation step a Player that stays in the Room moves by no
\* more than MaxSpeed * dt * SpeedTolerance, and at the end of the step its
\* position is its saved last valid position
C29_StepDisplacementBounded ==
    \A q \in Members :
        /\ ~ghost[q].overstep
        /\ heap[q].X = heap[q].LastValidX
        /\ heap[q].Y = heap[q].LastValidY

\* a Player was pushed further than the step allows and is back on its
\* baseline, still in the Room
C29_Witness ==
    \E q \in Members :
        /\ ghost[q].streak > 0
        /\ tickCount > 0
        /\ heap[q].X = heap[q].LastValidX
        /\ heap[q].Y = heap[q].LastValidY

\* C30: a rubberband verdict, once applied, leaves the Player on the baseline
\* it had and with one more violation than the check counted; a valid
\* verdict makes the checked position the baseline
C30_VerdictApplied ==
    calc.kind = "verdict" =>
        /\ calc.result = "Rubberband" =>
               /\ calc.after.X = calc.p.LastValidX
               /\ calc.after.Y = calc.p.LastValidY
               /\ calc.after.LastValidX = calc.p.LastValidX
               /\ calc.after.LastValidY = calc.p.LastValidY
               /\ calc.after.Violations = calc.p.Violations + 2
        /\ calc.result = "Valid" =>
               /\ calc.after.LastValidX = calc.p.X
               /\ calc.after.LastValidY = calc.p.Y
               /\ calc.after.X = calc.p.X
               /\ calc.after.Y = calc.p.Y

\* a rubberband verdict applied to a Player that had moved off its baseline
C30_Witness ==
    /\ calc.kind = "verdict"
    /\ calc.result = "Rubberband"
    /\ calc.p.X # calc.p.LastValidX
    /\ calc.p.Violations > 0

\* a valid verdict applied to a Player that had moved
C30_WitnessValid ==
    /\ calc.kind = "verdict"
    /\ calc.result = "Valid"
    /\ calc.p.Y # calc.p.LastValidY

\* the step thread t is about to take, <<"none">> between calls
NextOp(t) == IF thr[t].prog = <<>> THEN <<"none", "none">> ELSE Head(thr[t].prog)

\* C31: no thread calls Send or Close on a connection while it holds the
\* Room's exclusive lock
C31_NoSendUnderRoomLock ==
    \A t \in LockThreads : NextOp(t)[1] \in {"Send", "Close"} => lk["r"].w # t

\* C32 as stated: every write to a Player's fields, AddPlayer's writes to the
\* Player it creates included, is made by the holder of the Player's
\* exclusive lock, and every read of broadcastState under its shared lock
C32_AllWritesLocked ==
    \A t \in LockThreads :
        /\ NextOp(t)[1] \in {"Write", "Init"} => lk[NextOp(t)[2]].w = t
        /\ NextOp(t)[1] = "Read" => t \in lk[NextOp(t)[2]].rs

\* C32: every write to a Player's fields other than AddPlayer's placement of
\* the Player it has just created is made by the holder of the Player's
\* exclusive lock, and every read of broadcastState under its shared lock
C32_WritesLocked ==
    \A t \in LockThreads :
        /\ NextOp(t)[1] = "Write" => lk[NextOp(t)[2]].w = t
        /\ NextOp(t)[1] = "Read" => t \in lk[NextOp(t)[2]].rs

\* the scheduler reads a Player for the broadcast while a connection thread
\* that wants to write it waits for the lock
C32_Witness ==
    \E t \in LockThreads \ {0} :
        /\ NextOp(0)[1] = "Read"
        /\ 0 \in lk[NextOp(0)[2]].rs
        /\ t \in lk[NextOp(0)[2]].pend

\* C33: the Players after the collision phase do not depend on the order in
\* which the Player map and the grid cells were enumerated
C33_OrderIndependent ==
    calc.kind = "resolve" => calc.outA = calc.outB

\* floor(a / 100 units), a in 1/100 unit
FloorCell(a) == a \div 10000

\* whether two cells are the same or adjacent
NearCells(k1, k2) == Abs(k1[1] - k2[1]) <= 1 /\ Abs(k1[2] - k2[2]) <= 1

\* the candidate pairs that hold the Players a and b, in either order
PairsOf(a, b) == {pr \in calc.pairs : pr = <<a, b>> \/ pr = <<b, a>>}

\* C34: GetPotentialCollisions returns a pair of distinct Players once when
\* their cells are the same or adjacent, and not at all otherwise
C34_PairsOnceIffNear ==
    calc.kind = "grid" =>
        \A a, b \in 1..3 :
            a < b => Cardinality(PairsOf(a, b)) =
                         IF NearCells(calc.cells[a], calc.cells[b]) THEN 1 ELSE 0

\* two Players in adjacent cells across the border at 0 form a pair, the
\* third, two cells away, forms none
C34_Witness ==
    /\ calc.kind = "grid"
    /\ calc.cells[1] # calc.cells[2]
    /\ PairsOf(1, 2) # {}
    /\ PairsOf(1, 3) = {}
    /\ calc.h[1].X < 0

\* C35: the cell of a Player is (floor(x/100), floor(y/100))
C35_CellIsFloor ==
    calc.kind = "grid" =>
        \A q \in 1..3 :
            calc.cells[q] = <<FloorCell(calc.h[q].X), FloorCell(calc.h[q].Y)>>

\* whether two Players are closer than the collision radius and not at the
\* same place
Touching(a, b) ==
    /\ a.X # b.X \/ a.Y # b.Y
    /\ Abs(a.X - b.X) < CollisionRadius
    /\ Abs(a.Y - b.Y) < CollisionRadius
    /\ Dist2(a, b) < CollisionRadius * CollisionRadius

\* C36: two Players of the snapshot closer than the collision radius, and
\* not at the same place, form a candidate pair
C36_TouchingArePaired ==
    calc.kind = "grid" =>
        \A a, b \in 1..3 :
            (a < b /\ Touching(calc.h[a], calc.h[b])) => PairsOf(a, b) # {}

\* two touching Players on the two sides of a cell border, one of them at a
\* negative coordinate, form a pair
C36_Witness ==
    /\ calc.kind = "grid"
    /\ Touching(calc.h[1], calc.h[2])
    /\ calc.cells[1] # calc.cells[2]
    /\ calc.h[1].X < 0
    /\ PairsOf(1, 2) # {}

\* the Player p put on the centre of the road, as a push or a rubberband can
\* leave it
OnRoad(p) == [p EXCEPT !.X = GetRoadCurve(p.Y)]

\* C37: an exploded Player has rating 0, UpdatePlayer returns it as it is,
\* off the road and on it, and the explode verdict changes nothing of it
C37_ExplodedIsInert ==
    \A q \in Members :
        heap[q].Exploded =>
            /\ heap[q].Rating = 0
            /\ \A dt \in StepLengths :
                   /\ UpdatePlayer(heap[q], dt) = heap[q]
                   /\ UpdatePlayer(OnRoad(heap[q]), dt) = OnRoad(heap[q])
            /\ Explode(heap[q]) = heap[q]
            /\ ApplyValidationResult(heap[q], "Explode") = heap[q]

\* a Player that drove, exploded and has been through two more steps, with
\* keys still held
C37_Witness ==
    \E q \in Members :
        /\ heap[q].Exploded
        /\ heap[q].Speed > 0
        /\ heap[q].CurrentInput.Keys # 0
        /\ Clock - ghost[q].explodedAt >= 2 * RoomDt

\* C39: the control state HandleInput stores has steering and throttle in
\* [-1.0, 1.0], that is within -127..127 in 1/127, whatever the two bytes of
\* the Input message
C39_ControlInRange ==
    calc.kind = "input"
        => /\ calc.stored.Steering \in -127..127
           /\ calc.stored.Throttle \in -127..127

Snapped == {sched.snap[i] : i \in DOMAIN sched.snap}

\* C38: from its snapshot to its end a simulation step keeps the snapshot it
\* took, changes the Players of the snapshot only, goes through them one by
\* one and ends after the last, whatever joins and leaves happen meanwhile
C38_StepProcessesSnapshot ==
    [][/\ (sched.pc # "idle" /\ sched'.pc # "idle")
              => /\ sched'.snap = sched.snap
                 /\ sched'.idx \in {sched.idx, sched.idx + 1}
       /\ (sched.pc # "idle" /\ sched'.pc = "idle") => sched.idx = Len(sched.snap)
       /\ (sched' # sched /\ sched.pc # "idle")
              => \A q \in DOMAIN heap : heap'[q] # heap[q] => q \in Snapped]_vars

\* the validation loop is at a Player that has left the map since the
\* snapshot, and the map holds a Player that joined since
C38_Witness ==
    /\ sched.pc = "validate"
    /\ sched.snap[sched.idx] \notin Members
    /\ Members \ Snapped # {}

\* C26: no Close call closes the done channel a second time
C26_CloseIsIdempotent == ~connPanic

(***************************************************************************)
(* Claims about the lifecycle                                              *)
(***************************************************************************)
\* Start calls that found the flag false: loops launched or about to be
launchesDecided ==
    Len(loops) + Cardinality({t \in Callers : callers[t].pc = "startGo"})

\* Stop calls that found the flag true: stop signals sent or about to be
stopsDecided ==
    stopSignals + Cardinality({t \in Callers : callers[t].pc = "stopClose"})

\* C2: Start and Stop are idempotent, also when called concurrently: a loop
\* is launched only by a Start that found the Room not running and a stop
\* signal is sent only by a Stop that found it running, so launches and stop
\* signals alternate, beginning with a launch, and the flag tells which came
\* last. A Start on a running Room and a Stop on a stopped Room add neither.
C2_StartStopIdempotent ==
    /\ launchesDecided - stopsDecided \in {0, 1}
    /\ running <=> (launchesDecided = stopsDecided + 1)

\* C2 witness: one thread's Start found the Room running and returned, and
\* another thread's Stop found it not running and returned
C2_Witness ==
    \E t1, t2 \in Callers :
        /\ callers[t1].last = "startNoop"
        /\ callers[t2].last = "stopNoop"
        /\ callers[t1].pc = "idle"
        /\ callers[t2].pc = "idle"

\* C23: whatever Start and Stop calls were made on a Room, no Stop has closed
\* the stop channel a second time, and when the running flag is true and no
\* call is under way some scheduler loop is alive
C23_RestartKeepsLoop ==
    /\ ~panicked
    /\ (running /\ \A t \in Callers : callers[t].pc = "idle")
           => \E l \in DOMAIN loops : loops[l] # "exited"

\* C6: within one Room no two simulation steps overlap and a simulation step
\* never runs at the same time as a broadcast step
C6_StepsNeverOverlap ==
    \A l1, l2 \in DOMAIN loops :
        l1 # l2 => ~(loops[l1] = "physics" /\ loops[l2] \in {"physics", "broadcast"})

\* C7: once Stop has closed the stop channel, no scheduler loop that is at
\* its select starts another simulation or broadcast step
C7_NoStepAfterStop ==
    [][stopChan = "closed" =>
          \A l \in DOMAIN loops :
              loops[l] = "select" => loops'[l] \in {"select", "exited"}]_vars

=============================================================================
